---- MODULE Spec2Model ----
(***************************************************************************)
(* Superdesign canvas: the host side (CanvasMessageHandler, DesignManager) *)
(* and the presentation side (the zustand canvas store and the Gallery,    *)
(* Compare and Studio views), joined by the webview message channel.       *)
(*                                                                         *)
(* File names and design ids are sequences of tokens: "login.html" is      *)
(* <<"login", ".html">>, and String.includes / String.replace act on the   *)
(* tokens.  Times are milliseconds of the host clock, a natural number.    *)
(*                                                                         *)
(* A host handler is a coroutine: it runs from one await on real I/O to    *)
(* the next without interruption (awaits on already-resolved promises are  *)
(* microtasks), and the handlers interleave at those awaits.               *)
(***************************************************************************)
EXTENDS Integers, Sequences, FiniteSets, TLC

VARIABLES
    \* presentation process: canvasStore.ts
    mode, designs, primaryDesignId, compareSet, studioDesignId, filters,
    isLoading, error,
    \* presentation process: GalleryView's component state, and that of the
    \* DesignCards it has mounted
    selectedIds, cards,
    \* the webview channel, one queue per direction
    toHost, toView,
    \* the workspace on disk
    disk, archive, metaFile, config,
    \* host process: DesignManager and CanvasMessageHandler
    heap, cache, hostPrimary, procs, watcherQ, clock,
    \* what the environment may do in this specification (fixed by Init)
    scope,
    \* host process: the SuperdesignDevServer instance, the http servers it has
    \* created and the start() calls under way
    dev,
    \* history, kept where the scope asks for it: the last handler that ended,
    \* and the status last written for each file name
    ended, lastSet

viewVars == <<mode, designs, primaryDesignId, compareSet, studioDesignId,
              filters, isLoading, error, selectedIds, cards>>
chanVars == <<toHost, toView>>
diskVars == <<disk, archive, metaFile, config>>
hostVars == <<heap, cache, hostPrimary, procs, watcherQ>>
histVars == <<ended, lastSet>>
vars == <<viewVars, chanVars, diskVars, hostVars, clock, scope, dev, histVars>>

-----------------------------------------------------------------------------
(* Bounds of the model *)

PortRange == 2      \* ports findAvailablePort tries, from FirstPort on
MaxServers == 3     \* http servers one SuperdesignDevServer creates in a session
MaxClock == 2       \* the host clock runs from 1 to MaxClock
MaxQueue == 1       \* messages in flight per direction of the channel
MaxPending == 1     \* watcher events raised and not yet handled
BurstSize == 2      \* watcher events one save of a file raises

Undefined == "undefined"    \* a string member that is undefined
NoId == <<>>                \* a design id or file name that is null or undefined
NoRecord == [fileName |-> NoId]     \* the null of getDesignMetadata

HtmlExt == ".html"
SvgExt == ".svg"

Range(s) == {s[i] : i \in 1..Len(s)}

\* The documents of the model, by file name.
FileA == <<"a", HtmlExt>>
FileB == <<"b", "mobile", HtmlExt>>
FileC == <<"c", HtmlExt>>
FileD == <<"d", "tablet", HtmlExt>>
FileS == <<"s", SvgExt>>
HtmlFiles == {FileA, FileB, FileC, FileD}
AllFiles == HtmlFiles \cup {FileS}

ProcIds == {1, 2}
StoreIds == {1, 2, 3}

\* DesignStatus
DesignStatus == {"draft", "review", "approved", "archived", "exported"}

-----------------------------------------------------------------------------
(* Strings *)

\* String.prototype.endsWith on the last token.
EndsWith(file, ext) == Len(file) > 0 /\ file[Len(file)] = ext

\* String.prototype.includes.
Includes(s, tok) == tok \in Range(s)

RECURSIVE RemoveFirst(_, _)
\* String.prototype.replace(tok, ''): the first occurrence only.
RemoveFirst(s, tok) ==
    IF s = <<>> THEN <<>>
    ELSE IF Head(s) = tok THEN Tail(s)
    ELSE <<Head(s)>> \o RemoveFirst(Tail(s), tok)

\* getDesignFiles: name: file.replace('.html', '')
DesignIdOf(file) == RemoveFirst(file, HtmlExt)

\* handleDesignAction: const fileName = `${designId}.html`
FileNameOf(designId) == Append(designId, HtmlExt)

AllIds == {DesignIdOf(f) : f \in HtmlFiles}

-----------------------------------------------------------------------------
(* Metadata records and the persisted table *)

\* createDefaultMetadata(fileName) at time now.  A record without a parent has
\* parentDesign = NoId.
createDefaultMetadata(fileName, now) ==
    [fileName |-> fileName, status |-> "draft", createdAt |-> now,
     updatedAt |-> now, parentDesign |-> NoId, tags |-> <<>>, notes |-> ""]

\* DesignManager.createEmptyStore at time now.
createEmptyStore(now) ==
    [designs |-> <<>>, lastUpdated |-> now, version |-> "1.0.0"]

\* A table maps file names to records; <<>> is the empty table.
HasRecord(store, f) == f \in DOMAIN store.designs

\* store.designs[fileName] || null
RecordOf(store, f) == IF HasRecord(store, f) THEN store.designs[f] ELSE NoRecord

\* store.designs[fileName] = rec
PutRecord(store, f, rec) ==
    [store EXCEPT !.designs =
        [g \in (DOMAIN store.designs) \cup {f} |->
            IF g = f THEN rec ELSE store.designs[g]]]

\* delete store.designs[fileName]
DropRecord(store, f) ==
    [store EXCEPT !.designs =
        [g \in (DOMAIN store.designs) \ {f} |-> store.designs[g]]]

\* Date.prototype.toJSON and new Date(string): a date is written as its ISO
\* string and read back from it.
DateToJson(t) == <<"iso", t>>
DateFromJson(j) == IF Len(j) = 2 /\ j[1] = "iso" THEN j[2] ELSE 0

\* A stringify that writes every record as a draft.
RecordToJsonDraft(rec) ==
    [fileName |-> rec.fileName, status |-> "draft",
     createdAt |-> DateToJson(rec.createdAt), updatedAt |-> DateToJson(rec.updatedAt),
     tags |-> rec.tags, notes |-> rec.notes]

\* JSON.stringify of one record: undefined members are left out.
RecordToJson(rec) ==
    LET keep == {"fileName", "createdAt", "updatedAt", "tags", "notes"}
                \cup (IF rec.status # Undefined THEN {"status"} ELSE {})
                \cup (IF rec.parentDesign # NoId THEN {"parentDesign"} ELSE {})
    IN  [k \in keep |->
            IF k \in {"createdAt", "updatedAt"} THEN DateToJson(rec[k])
            ELSE rec[k]]

\* saveMetadata: JSON.stringify(store, null, 2)
Serialize(store) ==
    [kind |-> "json",
     version |-> store.version,
     lastUpdated |-> DateToJson(store.lastUpdated),
     designs |-> [f \in DOMAIN store.designs |-> RecordToJson(store.designs[f])]]

\* loadMetadata: one parsed record with its two dates converted back; a member
\* the text does not hold reads as undefined.
RecordFromJson(j) ==
    [fileName |-> j.fileName,
     status |-> IF "status" \in DOMAIN j THEN j.status ELSE Undefined,
     createdAt |-> DateFromJson(j.createdAt),
     updatedAt |-> DateFromJson(j.updatedAt),
     parentDesign |-> IF "parentDesign" \in DOMAIN j THEN j.parentDesign ELSE NoId,
     tags |-> j.tags,
     notes |-> j.notes]

\* The persisted file: absent, not JSON, or a JSON object.
Absent == [kind |-> "absent"]
Garbage == [kind |-> "garbage"]

\* JSON objects of another shape: { "designs": null, "version": "1.0.0" },
\* one without a version, and one whose table holds null for a file name.
NullDesigns ==
    [kind |-> "json", version |-> "1.0.0", lastUpdated |-> DateToJson(1),
     designs |-> <<>>, nullDesigns |-> TRUE]
NoVersion ==
    [kind |-> "json", lastUpdated |-> DateToJson(1), designs |-> <<>>]
NullRecord ==
    [kind |-> "json", version |-> "1.0.0", lastUpdated |-> DateToJson(1),
     designs |-> <<>>, nullRecord |-> TRUE]

\* The designs member of a parsed object or of a store is null.
DesignsIsNull(data) == "nullDesigns" \in DOMAIN data

\* isValidMetadataStore(data) for a parsed JSON object: typeof data.designs
\* is 'object' for a table and for null, typeof data.version is 'string'
\* when the member is there.
isValidMetadataStore(data) ==
    /\ data.kind = "json"
    /\ "designs" \in DOMAIN data
    /\ "version" \in DOMAIN data

\* loadMetadata lines 48-51: the loop over the keys of data.designs runs no
\* round when designs is null, and raises a TypeError at a record that is
\* null.
ConversionThrows(data) == "nullRecord" \in DOMAIN data

\* loadMetadata lines 44-55: the store parsed from a valid file.
Parse(data) ==
    LET store == [designs |-> [f \in DOMAIN data.designs |->
                                    RecordFromJson(data.designs[f])],
                  lastUpdated |-> DateFromJson(data.lastUpdated),
                  version |-> data.version]
    IN  IF DesignsIsNull(data)
        THEN [designs |-> <<>>, lastUpdated |-> store.lastUpdated,
              version |-> store.version, nullDesigns |-> TRUE]
        ELSE store

\* What loadMetadata returns for the file content when the cache is empty,
\* and whether it caches it.
LoadsValid(content) ==
    /\ content.kind = "json"
    /\ isValidMetadataStore(content)
    /\ ~ConversionThrows(content)
LoadedStore(content, now) ==
    IF LoadsValid(content) THEN Parse(content) ELSE createEmptyStore(now)

-----------------------------------------------------------------------------
(* The catalog: CanvasMessageHandler.getDesignFiles *)

\* fs.readdirSync order: by name, here the order of this list.
FileOrder == <<FileA, FileB, FileC, FileD, FileS>>
OnDisk(d) == {f \in DOMAIN d : d[f] > 0}
ReadDir(d) == SelectSeq(FileOrder, LAMBDA f : f \in OnDisk(d))

Viewport(file) ==
    IF Includes(file, "mobile") THEN "mobile"
    ELSE IF Includes(file, "tablet") THEN "tablet"
    ELSE "desktop"

\* A DesignFile that shows the status as the record holds it.
DesignFileAsStored(file, mtime, metadata) ==
    [name |-> DesignIdOf(file),
     viewport |-> Viewport(file),
     status |-> IF metadata = NoRecord THEN "draft"
                ELSE IF metadata.status \in {Undefined, ""} THEN "draft"
                ELSE metadata.status,
     timestamp |-> mtime,
     parentDesign |-> IF metadata = NoRecord THEN NoId ELSE metadata.parentDesign]

\* lines 400-408: one DesignFile from a file, its mtime and its record.
DesignFileOf(file, mtime, metadata) ==
    [name |-> DesignIdOf(file),
     viewport |-> Viewport(file),
     status |-> IF metadata = NoRecord THEN "draft"
                ELSE IF metadata.status = "exported" THEN "archived"
                ELSE IF metadata.status \in {Undefined, ""} THEN "draft"
                ELSE metadata.status,
     timestamp |-> mtime,
     parentDesign |-> IF metadata = NoRecord THEN NoId ELSE metadata.parentDesign]

RECURSIVE InsertByTime(_, _)
\* Insert e after every entry at least as new: a stable sort, newest first.
InsertByTime(e, s) ==
    IF s = <<>> THEN <<e>>
    ELSE IF Head(s).timestamp >= e.timestamp
         THEN <<Head(s)>> \o InsertByTime(e, Tail(s))
         ELSE <<e>> \o s

\* A getDesignFiles that leaves the entries in readdir order.
KeepOrder(s) == s

RECURSIVE SortNewestFirst(_)
\* designs.sort((a, b) => b.timestamp - a.timestamp)
SortNewestFirst(s) ==
    IF s = <<>> THEN <<>>
    ELSE LET n == Len(s)
         IN  InsertByTime(s[n], SortNewestFirst(SubSeq(s, 1, n - 1)))

\* getDesignFiles lines 377-409 with the table already loaded: every listed
\* file with its record, in readdir order.
RECURSIVE JoinFiles(_, _, _)
JoinFiles(files, d, store) ==
    IF files = <<>> THEN <<>>
    ELSE <<DesignFileOf(Head(files), d[Head(files)], RecordOf(store, Head(files)))>>
         \o JoinFiles(Tail(files), d, store)

\* getDesignFiles for a directory and a table.
getDesignFiles(d, store) ==
    SortNewestFirst(JoinFiles(SelectSeq(ReadDir(d), LAMBDA f : EndsWith(f, HtmlExt)),
                              d, store))

Names(list) == {list[i].name : i \in 1..Len(list)}

-----------------------------------------------------------------------------
(* Messages of the channel *)

ReadyMsg == [command |-> "canvas:ready"]
SetPrimaryMsg(id) == [command |-> "design:setPrimary", designId |-> id]
ActionMsg(id, action, value) ==
    [command |-> "design:action", designId |-> id, action |-> action,
     value |-> value]
ListMsg(list) == [command |-> "designs:list", designs |-> list]
ErrorMsg == [command |-> "error", error |-> "Failed to load designs"]
PrimarySetMsg(id) == [command |-> "design:primarySet", designId |-> id]

\* vscode.postMessage from the webview.
PostToHost(msg) == /\ Len(toHost) < MaxQueue
                   /\ toHost' = Append(toHost, msg)

-----------------------------------------------------------------------------
(* The canvas store: canvasStore.ts *)

CompareCapacity == 3

DefaultFilters == [status |-> "all", viewport |-> "all", search |-> NoId]

\* Array.prototype.slice(0, n)
Slice0(s, n) == SubSeq(s, 1, IF Len(s) < n THEN Len(s) ELSE n)

\* Array.prototype.includes
InSeq(s, x) == x \in Range(s)

\* setMode: the studio-focus the call leaves.
StudioIdAfterSetMode(m, designId) ==
    IF m = "studio"
    THEN (IF designId # NoId THEN designId ELSE studioDesignId)
    ELSE studioDesignId

\* setMode(mode, designId?)
setMode(m, designId) ==
    /\ mode' = m
    /\ studioDesignId' = StudioIdAfterSetMode(m, designId)

\* addToCompare without its slice(0, 3).
AddToCompareUnbounded(cs, m, id) ==
    IF InSeq(cs, id) THEN [compareSet |-> cs, mode |-> m]
    ELSE [compareSet |-> Append(cs, id), mode |-> "compare"]

\* An addToCompare that puts the new id first.
AddToCompareFront(cs, m, id) ==
    IF InSeq(cs, id) THEN [compareSet |-> cs, mode |-> m]
    ELSE [compareSet |-> Slice0(<<id>> \o cs, CompareCapacity), mode |-> "compare"]

\* addToCompare(id) on a compare-set and a mode: the pair it leaves.
AddToCompareOp(cs, m, id) ==
    IF InSeq(cs, id) THEN [compareSet |-> cs, mode |-> m]
    ELSE LET newCompareSet == Slice0(Append(cs, id), CompareCapacity)
         IN  [compareSet |-> newCompareSet,
              mode |-> IF Len(newCompareSet) > 0 THEN "compare" ELSE m]

addToCompare(id) ==
    LET r == AddToCompareOp(compareSet, mode, id)
    IN  /\ compareSet' = r.compareSet
        /\ mode' = r.mode

\* A removeFromCompare that leaves the mode alone.
RemoveKeepsMode(cs, m, id) ==
    [compareSet |-> SelectSeq(cs, LAMBDA cid : cid # id), mode |-> m]

\* removeFromCompare(id)
RemoveFromCompareOp(cs, m, id) ==
    LET newCompareSet == SelectSeq(cs, LAMBDA cid : cid # id)
    IN  [compareSet |-> newCompareSet,
         mode |-> IF Len(newCompareSet) = 0 THEN "gallery" ELSE m]

removeFromCompare(id) ==
    LET r == RemoveFromCompareOp(compareSet, mode, id)
    IN  /\ compareSet' = r.compareSet
        /\ mode' = r.mode

\* clearCompare()
clearCompare ==
    /\ compareSet' = <<>>
    /\ mode' = "gallery"

\* setPrimaryDesignId(id): the pointer, and the message to the host.
setPrimaryDesignId(id) ==
    /\ primaryDesignId' = id
    /\ PostToHost(SetPrimaryMsg(id))

\* setFilters(partial)
MergeFilters(cur, partial) ==
    [k \in DOMAIN cur |-> IF k \in DOMAIN partial THEN partial[k] ELSE cur[k]]

\* String.prototype.includes for a string of several tokens.
IsSubstring(str, sub) ==
    \E i \in 1..(Len(str) + 1) :
        /\ i + Len(sub) - 1 <= Len(str)
        /\ SubSeq(str, i, i + Len(sub) - 1) = sub

\* useFilteredDesigns()
FilteredDesigns(list, f) ==
    SelectSeq(list, LAMBDA design :
        /\ ~(f.status # "all" /\ design.status # f.status)
        /\ ~(f.viewport # "all" /\ design.viewport # f.viewport)
        /\ ~(f.search # NoId /\ ~IsSubstring(design.name, f.search)))

\* useDesignVariations(designId)
DesignVariations(list, designId) ==
    SelectSeq(list, LAMBDA d : d.parentDesign = designId)

\* designs.find(d => d.name === id) succeeds
Found(list, id) == id \in Names(list)

\* useParentDesign(designId): the parent's name, NoId when there is none.
ParentDesign(list, designId) ==
    IF ~Found(list, designId) THEN NoId
    ELSE LET design == CHOOSE d \in Range(list) : d.name = designId
         IN  IF design.parentDesign # NoId /\ Found(list, design.parentDesign)
             THEN design.parentDesign ELSE NoId

-----------------------------------------------------------------------------
(* The presentation process: App's message handler and the three views *)

NoError == ""

\* A component's state is lost when its view is unmounted: GalleryView is
\* mounted only in Gallery mode (App.renderView).
SelectionAfter(sel) == IF mode' = "gallery" THEN sel ELSE <<>>

\* What GalleryView renders: the cards, or one of its three placeholders.
GalleryCards ==
    IF mode = "gallery" /\ ~isLoading /\ error = NoError
    THEN FilteredDesigns(designs, filters) ELSE <<>>

\* DesignCard's component state (useState, lines 19-20 of DesignCard.tsx).  A card is mounted
\* with it when GalleryView starts to render its design (key = design.name)
\* and loses it when GalleryView stops.
NewCard == [isHovered |-> FALSE, previewLoaded |-> FALSE]
CardsAfter ==
    [id \in AllIds |->
        IF id \in Names(GalleryCards) /\ id \in Names(GalleryCards')
        THEN cards[id] ELSE NewCard]

\* App messageHandler lines 121-139: the head of the queue is handled.
ViewReceive ==
    /\ toView # <<>>
    /\ toView' = Tail(toView)
    /\ LET message == Head(toView)
       IN  CASE message.command = "designs:list" ->
                    /\ designs' = message.designs
                    /\ isLoading' = FALSE
                    /\ error' = error
              [] message.command = "error" ->
                    /\ error' = message.error
                    /\ isLoading' = FALSE
                    /\ designs' = designs
              [] OTHER -> UNCHANGED <<designs, isLoading, error>>
    /\ UNCHANGED <<mode, primaryDesignId, compareSet, studioDesignId, filters,
                   selectedIds, toHost>>
    /\ UNCHANGED <<diskVars, hostVars, clock, scope, dev, histVars>>
    /\ cards' = CardsAfter

\* GalleryView.handleCardClick with cmd/ctrl: toggle the selection.
GalleryToggleSelect(id) ==
    /\ id \in Names(GalleryCards)
    /\ selectedIds' = IF InSeq(selectedIds, id)
                      THEN SelectSeq(selectedIds, LAMBDA x : x # id)
                      ELSE Append(selectedIds, id)
    /\ UNCHANGED <<mode, designs, primaryDesignId, compareSet, studioDesignId,
                   filters, isLoading, error>>
    /\ UNCHANGED <<chanVars, diskVars, hostVars, clock, scope, dev, histVars>>
    /\ cards' = CardsAfter

\* GalleryView.handleCardClick without a modifier: open the card in Studio.
GalleryOpenStudio(id) ==
    /\ id \in Names(GalleryCards)
    /\ setMode("studio", id)
    /\ selectedIds' = SelectionAfter(selectedIds)
    /\ UNCHANGED <<designs, primaryDesignId, compareSet, filters, isLoading, error>>
    /\ UNCHANGED <<chanVars, diskVars, hostVars, clock, scope, dev, histVars>>
    /\ cards' = CardsAfter

RECURSIVE AddAllToCompare(_, _, _)
\* selectedIds.forEach(id => addToCompare(id))
AddAllToCompare(cs, m, ids) ==
    IF ids = <<>> THEN [compareSet |-> cs, mode |-> m]
    ELSE LET r == AddToCompareOp(cs, m, Head(ids))
         IN  AddAllToCompare(r.compareSet, r.mode, Tail(ids))

\* GalleryView.handleCompareSelected, offered by GalleryToolbar for a selection
\* of 2 or 3.
GalleryCompareSelected ==
    /\ GalleryCards # <<>>
    /\ Len(selectedIds) >= 2 /\ Len(selectedIds) <= 3
    /\ LET r == AddAllToCompare(compareSet, mode, selectedIds)
       IN  /\ compareSet' = r.compareSet
           /\ mode' = r.mode
    /\ selectedIds' = <<>>
    /\ UNCHANGED <<designs, primaryDesignId, studioDesignId, filters, isLoading, error>>
    /\ UNCHANGED <<chanVars, diskVars, hostVars, clock, scope, dev, histVars>>
    /\ cards' = CardsAfter

\* GalleryToolbar onClearSelection
GalleryClearSelection ==
    /\ GalleryCards # <<>>
    /\ Len(selectedIds) > 0
    /\ selectedIds' = <<>>
    /\ UNCHANGED <<mode, designs, primaryDesignId, compareSet, studioDesignId,
                   filters, isLoading, error>>
    /\ UNCHANGED <<chanVars, diskVars, hostVars, clock, scope, dev, histVars>>
    /\ cards' = CardsAfter

\* The set-primary button of a card or frame showing design id.
SetPrimaryButton(id) ==
    /\ id # primaryDesignId
    /\ setPrimaryDesignId(id)
    /\ UNCHANGED <<mode, designs, compareSet, studioDesignId, filters, isLoading,
                   error, selectedIds, toView>>
    /\ UNCHANGED <<diskVars, hostVars, clock, scope, dev, histVars>>
    /\ cards' = CardsAfter

\* GalleryView.handleSetPrimary
GallerySetPrimary(id) ==
    /\ id \in Names(GalleryCards)
    /\ SetPrimaryButton(id)

\* GalleryToolbar: the search box and the two selects.
GallerySetFilters(partial) ==
    /\ GalleryCards # <<>>
    /\ filters' = MergeFilters(filters, partial)
    /\ UNCHANGED <<mode, designs, primaryDesignId, compareSet, studioDesignId,
                   isLoading, error, selectedIds>>
    /\ UNCHANGED <<chanVars, diskVars, hostVars, clock, scope, dev, histVars>>
    /\ cards' = CardsAfter

\* A back button that only the frames have, not the placeholders.
BackFromFrames ==
    /\ (mode = "compare" /\ SelectSeq(designs, LAMBDA d : InSeq(compareSet, d.name)) # <<>>)
       \/ (mode = "studio" /\ (IF studioDesignId # NoId THEN studioDesignId
                                ELSE primaryDesignId) \in Names(designs))
    /\ setMode("gallery", NoId)
    /\ selectedIds' = SelectionAfter(selectedIds)
    /\ UNCHANGED <<designs, primaryDesignId, compareSet, filters, isLoading, error>>
    /\ UNCHANGED <<chanVars, diskVars, hostVars, clock, scope, dev, histVars>>
    /\ cards' = CardsAfter

\* The back button of CompareView and StudioView: setMode('gallery').
BackToGallery ==
    /\ mode \in {"compare", "studio"}
    /\ setMode("gallery", NoId)
    /\ selectedIds' = SelectionAfter(selectedIds)
    /\ UNCHANGED <<designs, primaryDesignId, compareSet, filters, isLoading, error>>
    /\ UNCHANGED <<chanVars, diskVars, hostVars, clock, scope, dev, histVars>>
    /\ cards' = CardsAfter

\* CompareView: the designs it mounts a CompareFrame for.
CompareDesigns ==
    IF mode = "compare"
    THEN SelectSeq(designs, LAMBDA d : InSeq(compareSet, d.name)) ELSE <<>>

\* CompareFrame onRemove
CompareRemove(id) ==
    /\ id \in Names(CompareDesigns)
    /\ removeFromCompare(id)
    /\ selectedIds' = SelectionAfter(selectedIds)
    /\ UNCHANGED <<designs, primaryDesignId, studioDesignId, filters, isLoading, error>>
    /\ UNCHANGED <<chanVars, diskVars, hostVars, clock, scope, dev, histVars>>
    /\ cards' = CardsAfter

\* CompareFrame.handleOpenInStudio
CompareOpenInStudio(id) ==
    /\ id \in Names(CompareDesigns)
    /\ setMode("studio", id)
    /\ selectedIds' = SelectionAfter(selectedIds)
    /\ UNCHANGED <<designs, primaryDesignId, compareSet, filters, isLoading, error>>
    /\ UNCHANGED <<chanVars, diskVars, hostVars, clock, scope, dev, histVars>>
    /\ cards' = CardsAfter

\* CompareFrame.handleSetPrimary
CompareSetPrimary(id) ==
    /\ id \in Names(CompareDesigns)
    /\ SetPrimaryButton(id)

\* A StudioView that prefers the primary design to the studio-focus.
ActivePrimaryFirst == IF primaryDesignId # NoId THEN primaryDesignId ELSE studioDesignId

\* StudioView: activeDesignId and whether a StudioFrame is mounted for it.
ActiveDesignId == IF studioDesignId # NoId THEN studioDesignId ELSE primaryDesignId
StudioShown == mode = "studio" /\ Found(designs, ActiveDesignId)

\* DesignCard lines 56-57.  The pointer is over one element at a
\* time: the browser delivers mouseleave to the card it was over before
\* mouseenter to the next.
CardMouseEnter(id) ==
    /\ id \in Names(GalleryCards)
    /\ \A other \in AllIds : ~cards[other].isHovered
    /\ cards' = [cards EXCEPT ![id].isHovered = TRUE]
    /\ UNCHANGED <<mode, designs, primaryDesignId, compareSet, studioDesignId,
                   filters, isLoading, error, selectedIds>>
    /\ UNCHANGED <<chanVars, diskVars, hostVars, clock, scope, dev, histVars>>

CardMouseLeave(id) ==
    /\ id \in Names(GalleryCards)
    /\ cards[id].isHovered
    /\ cards' = [cards EXCEPT ![id].isHovered = FALSE]
    /\ UNCHANGED <<mode, designs, primaryDesignId, compareSet, studioDesignId,
                   filters, isLoading, error, selectedIds>>
    /\ UNCHANGED <<chanVars, diskVars, hostVars, clock, scope, dev, histVars>>

\* A card that keeps its preview once it was loaded.
CardPreviewKept(c) == c.isHovered \/ c.previewLoaded

\* DesignCard line 62: isHovered && !previewLoaded && design.filePath (the
\* filePath is the webview URI of the file, never empty).
CardPreview(c) == c.isHovered /\ ~c.previewLoaded

\* The iframe's onLoad: setPreviewLoaded(true).
CardPreviewLoad(id) ==
    /\ id \in Names(GalleryCards)
    /\ CardPreview(cards[id])
    /\ cards' = [cards EXCEPT ![id].previewLoaded = TRUE]
    /\ UNCHANGED <<mode, designs, primaryDesignId, compareSet, studioDesignId,
                   filters, isLoading, error, selectedIds>>
    /\ UNCHANGED <<chanVars, diskVars, hostVars, clock, scope, dev, histVars>>

\* StudioFrame.handleSetPrimary
StudioSetPrimary ==
    /\ StudioShown
    /\ SetPrimaryButton(ActiveDesignId)

\* StudioFrame: a design:action message (handleSetStatus, handleCopyPrompt,
\* handleCopyPath, handleOpenExternal).
StudioPostAction(action, value) ==
    /\ StudioShown
    /\ PostToHost(ActionMsg(ActiveDesignId, action, value))
    /\ UNCHANGED <<viewVars, toView, diskVars, hostVars, clock, scope, dev, histVars>>

\* StudioFrame and VariationStrip: the add-to-comparison buttons.
StudioAddToCompare(id) ==
    /\ StudioShown
    /\ \/ id = ActiveDesignId
       \/ id \in Names(DesignVariations(designs, ActiveDesignId))
    /\ addToCompare(id)
    /\ selectedIds' = SelectionAfter(selectedIds)
    /\ UNCHANGED <<designs, primaryDesignId, studioDesignId, filters, isLoading, error>>
    /\ UNCHANGED <<chanVars, diskVars, hostVars, clock, scope, dev, histVars>>
    /\ cards' = CardsAfter

\* VariationStrip card and HierarchyBreadcrumb parent: setStudioDesignId(id).
StudioSelect(id) ==
    /\ StudioShown
    /\ \/ id \in Names(DesignVariations(designs, ActiveDesignId))
       \/ (id # NoId /\ id = ParentDesign(designs, ActiveDesignId))
    /\ studioDesignId' = id
    /\ UNCHANGED <<mode, designs, primaryDesignId, compareSet, filters, isLoading,
                   error, selectedIds>>
    /\ UNCHANGED <<chanVars, diskVars, hostVars, clock, scope, dev, histVars>>
    /\ cards' = CardsAfter

-----------------------------------------------------------------------------
(* The host process: handlers as coroutines *)

\* A handler: what it was started for, where it stands (pc), and its locals.
\*   store    the DesignMetadataStore object it holds (0: none)
\*   k        where it continues after the await it is suspended in
\*   rest/acc getDesignFiles' loop: the files to go and the designs so far
\*   posted   what it sent to the webview, and pushed: the last catalog in it
\*   had      setStatus found a record, whose updatedAt was before
\*   removed  it has deleted the design file
\*   raised   it ended by an exception that left it
\*   caught   it ended by an exception it caught and logged itself
\*   prior    the cached table when a DesignManager operation was called
\*   tried    archiveOldDesigns: the files archiveDesign was called for, and
\*   cutoff   its cutoffDate; acc holds the files it has counted
IdleProc ==
    [kind |-> "idle", pc |-> "idle", file |-> NoId, id |-> NoId,
     action |-> "", value |-> Undefined,
     store |-> 0, k |-> "idle", content |-> Absent, rest |-> <<>>, acc |-> <<>>,
     mtime |-> 0, confirm |-> Undefined, posted |-> <<>>, pushed |-> <<>>,
     raised |-> FALSE, caught |-> FALSE, removed |-> FALSE, had |-> FALSE,
     before |-> 0, prior |-> <<>>, tried |-> <<>>, cutoff |-> 0]

FreeCell == createEmptyStore(0)

\* The store objects some handler or the cache refers to.
LiveIds(ps, c) == ({ps[q].store : q \in DOMAIN ps} \cup {c}) \ {0}

\* A new object: the first cell nothing refers to.
NewId(live) == CHOOSE i \in StoreIds \ live : \A j \in StoreIds \ live : i <= j

\* The state a handler's segment runs on: the handler p (its slot is self) and
\* the host state it may read and write without awaiting.
\*   out     the messages postMessage'd to the webview
\*   events  the watcher events its own file operations raise
Segment(self) ==
    [self |-> self, p |-> procs[self], heap |-> heap, cache |-> cache,
     disk |-> disk, hostPrimary |-> hostPrimary, now |-> clock,
     others |-> {procs[q].store : q \in ProcIds \ {self}} \ {0},
     out |-> <<>>, events |-> 0]

Goto(st, pc) == [st EXCEPT !.p.pc = pc]

\* An exception leaves the handler: nothing of it runs afterwards.
\* syncWithFileSystem catches and logs what is raised inside it (lines
\* 375-377) and returns.
\* archiveOldDesigns catches and logs what archiveDesign raises (lines
\* 311-313) and goes on with the next entry.
Throw(st) ==
    IF st.p.kind = "sync"
    THEN [st EXCEPT !.p.pc = "done", !.p.caught = TRUE]
    ELSE IF st.p.kind = "archiveOld" /\ st.p.file # NoId
    THEN [st EXCEPT !.p.pc = "ao_next", !.p.rest = Tail(@), !.p.file = NoId,
                    !.p.caught = TRUE]
    ELSE [st EXCEPT !.p.pc = "done", !.p.raised = TRUE]

\* webview.postMessage(msg)
Post(st, msg) ==
    [st EXCEPT !.out = Append(@, msg),
               !.p.posted = Append(@, msg.command),
               !.p.pushed = IF msg.command = "designs:list" THEN msg.designs ELSE @]

\* loadMetadata lines 38-40: the cached store, or the read of the file is
\* awaited; the handler continues at k.
LoadMetadata(st, k) ==
    IF st.cache # 0
    THEN [st EXCEPT !.p.store = st.cache, !.p.pc = k]
    ELSE [st EXCEPT !.p.pc = "w_read", !.p.k = k]

\* loadMetadata lines 43-64, when the read has ended with this content (Absent
\* too when the read failed).
LoadMetadataRead(st, content) ==
    LET id == NewId(st.others \cup ({st.cache} \ {0}))
    IN  [st EXCEPT !.heap[id] = LoadedStore(content, st.now),
                   !.cache = IF LoadsValid(content) THEN id ELSE @,
                   !.p.store = id,
                   !.p.pc = st.p.k]

\* saveMetadata lines 72-77: stamp, serialize, and await the write.
SaveMetadata(st, k) ==
    LET stamped == [st.heap[st.p.store] EXCEPT !.lastUpdated = st.now]
    IN  [st EXCEPT !.heap[st.p.store] = stamped,
                   !.p.content = Serialize(stamped),
                   !.p.pc = "w_write", !.p.k = k]

\* saveMetadata line 78, after the write succeeded.
SaveMetadataWritten(st) ==
    [st EXCEPT !.cache = st.p.store, !.p.pc = st.p.k]

\* getDesignFiles lines 372-379: the next file of the loop is stat'ed and its
\* metadata asked for; after the last one the list is sorted and sent
\* (sendDesignsList lines 346-349).  A failing statSync is caught by
\* sendDesignsList, which sends the error message instead.
ListNext(st) ==
    IF st.p.rest = <<>>
    THEN Goto(Post(st, ListMsg(SortNewestFirst(st.p.acc))), "done")
    ELSE LET file == Head(st.p.rest)
         IN  IF st.disk[file] = 0
             THEN Goto(Post(st, ErrorMsg), "done")
             ELSE LoadMetadata([st EXCEPT !.p.mtime = st.disk[file]], "list_read")

\* A getDesignFiles that writes the status it shows back into the record.
ListReadStoring(st) ==
    LET file == Head(st.p.rest)
        store == st.heap[st.p.store]
        shown == DesignFileOf(file, st.p.mtime, RecordOf(store, file))
    IN  IF st.disk[file] = 0
        THEN Goto(Post(st, ErrorMsg), "done")
        ELSE [st EXCEPT !.p.acc = Append(@, shown),
                        !.p.rest = Tail(@),
                        !.p.pc = "list_next",
                        !.heap[st.p.store] =
                            IF HasRecord(store, file)
                            THEN [store EXCEPT !.designs[file].status = shown.status]
                            ELSE store]

\* getDesignFiles lines 382-408: the record is looked up, the file read and
\* its DesignFile pushed.
ListRead(st) ==
    LET file == Head(st.p.rest)
    IN  IF st.disk[file] = 0
        THEN Goto(Post(st, ErrorMsg), "done")
        ELSE [st EXCEPT !.p.acc = Append(@, DesignFileOf(file, st.p.mtime,
                                            RecordOf(st.heap[st.p.store], file))),
                        !.p.rest = Tail(@),
                        !.p.pc = "list_next"]

\* getDesignFiles lines 372-373: readdirSync and the .html filter.
ListStart(st) ==
    [st EXCEPT !.p.rest = SelectSeq(ReadDir(st.disk), LAMBDA f : EndsWith(f, HtmlExt)),
               !.p.acc = <<>>,
               !.p.pc = "list_next"]

\* setPrimaryDesign lines 521-522: the pointer is set and its save awaited.
SetPrimaryStart(st) ==
    [st EXCEPT !.hostPrimary = st.p.id, !.p.pc = "w_cfg", !.p.k = "sp_saved"]

\* setPrimaryDesign lines 527-530
SetPrimarySaved(st) == Goto(Post(st, PrimarySetMsg(st.p.id)), "done")

\* setStatus that finds the record and leaves its status as it is.
SetStatusGotKept(st) ==
    IF HasRecord(st.heap[st.p.store], st.p.file)
    THEN LoadMetadata(
            [st EXCEPT !.p.had = TRUE,
                       !.p.before = st.heap[st.p.store].designs[st.p.file].updatedAt],
            "ss_set")
    ELSE Goto(st, "list")

\* handleDesignAction 'setStatus' lines 544-546: the record object of the file
\* gets the new status, in the store it lives in.
SetStatusGot(st) ==
    IF HasRecord(st.heap[st.p.store], st.p.file)
    THEN LoadMetadata(
            [st EXCEPT !.heap[st.p.store].designs[st.p.file].status = st.p.value,
                       !.p.had = TRUE,
                       !.p.before = st.heap[st.p.store].designs[st.p.file].updatedAt],
            "ss_set")
    ELSE Goto(st, "list")

\* setDesignMetadata lines 99-101
SetStatusSet(st) ==
    SaveMetadata(
        [st EXCEPT !.heap[st.p.store].designs[st.p.file].updatedAt = st.now],
        "list")

\* deleteDesign that does not look at the dialog's answer.
DeleteUnconfirmed(st) ==
    IF st.disk[st.p.file] = 0
    THEN Throw(st)
    ELSE LoadMetadata([st EXCEPT !.disk[st.p.file] = 0,
                                 !.events = @ + 1,
                                 !.p.removed = TRUE], "dl_drop")

\* deleteDesign lines 623-627, once the dialog has answered.
DeleteConfirmed(st) ==
    IF st.p.confirm = "Delete"
    THEN IF st.disk[st.p.file] = 0
         THEN Throw(st)
         ELSE LoadMetadata([st EXCEPT !.disk[st.p.file] = 0,
                                      !.events = @ + 1,
                                      !.p.removed = TRUE], "dl_drop")
    ELSE Goto(st, "list")

\* deleteDesign that removes the record from the store and does not save it.
DeleteDropUnsaved(st) ==
    Goto([st EXCEPT !.heap[st.p.store] = DropRecord(@, st.p.file)], "list")

\* deleteDesign lines 628-629
DeleteDrop(st) ==
    SaveMetadata([st EXCEPT !.heap[st.p.store] = DropRecord(@, st.p.file)], "list")

\* updateStatus that stamps the record and leaves its status as it is.
UpdateStatusKept(st, status, k) ==
    LET store == st.heap[st.p.store]
        rec == IF HasRecord(store, st.p.file) THEN store.designs[st.p.file]
               ELSE createDefaultMetadata(st.p.file, st.now)
    IN  SaveMetadata(
            [st EXCEPT !.heap[st.p.store] =
                PutRecord(store, st.p.file, [rec EXCEPT !.updatedAt = st.now])],
            k)

\* updateStatus lines 110-117 with the store loaded.
UpdateStatusLoaded(st, status, k) ==
    LET store == st.heap[st.p.store]
        rec == IF HasRecord(store, st.p.file) THEN store.designs[st.p.file]
               ELSE createDefaultMetadata(st.p.file, st.now)
    IN  SaveMetadata(
            [st EXCEPT !.heap[st.p.store] =
                PutRecord(store, st.p.file,
                          [rec EXCEPT !.status = status, !.updatedAt = st.now])],
            k)

\* getDesignMetadata line 91
GetLoaded(st) ==
    Goto([st EXCEPT !.p.had = HasRecord(st.heap[st.p.store], st.p.file)], "done")

\* addTag lines 127-140: the record is made if there is none; the store is
\* saved only when the tag is new.
AddTagLoaded(st) ==
    LET store == st.heap[st.p.store]
        rec == IF HasRecord(store, st.p.file) THEN store.designs[st.p.file]
               ELSE createDefaultMetadata(st.p.file, st.now)
    IN  IF Includes(rec.tags, st.p.value)
        THEN Goto([st EXCEPT !.heap[st.p.store] = PutRecord(store, st.p.file, rec)],
                  "done")
        ELSE SaveMetadata(
                [st EXCEPT !.heap[st.p.store] =
                    PutRecord(store, st.p.file,
                              [rec EXCEPT !.tags = Append(@, st.p.value),
                                          !.updatedAt = st.now])],
                "done")

\* removeTag lines 149-154
RemoveTagLoaded(st) ==
    LET store == st.heap[st.p.store]
    IN  IF HasRecord(store, st.p.file)
        THEN SaveMetadata(
                [st EXCEPT !.heap[st.p.store].designs[st.p.file] =
                    [@ EXCEPT !.tags = SelectSeq(@, LAMBDA t : t # st.p.value),
                              !.updatedAt = st.now]],
                "done")
        ELSE Goto(st, "done")

\* updateNotes that leaves updatedAt as it is.
UpdateNotesUnstamped(st) ==
    LET store == st.heap[st.p.store]
        rec == IF HasRecord(store, st.p.file) THEN store.designs[st.p.file]
               ELSE createDefaultMetadata(st.p.file, st.now)
    IN  SaveMetadata(
            [st EXCEPT !.heap[st.p.store] =
                PutRecord(store, st.p.file, [rec EXCEPT !.notes = st.p.value])],
            "done")

\* updateNotes lines 163-170
UpdateNotesLoaded(st) ==
    LET store == st.heap[st.p.store]
        rec == IF HasRecord(store, st.p.file) THEN store.designs[st.p.file]
               ELSE createDefaultMetadata(st.p.file, st.now)
    IN  SaveMetadata(
            [st EXCEPT !.heap[st.p.store] =
                PutRecord(store, st.p.file,
                          [rec EXCEPT !.notes = st.p.value, !.updatedAt = st.now])],
            "done")

RECURSIVE AddDefaults(_, _, _)
\* syncWithFileSystem lines 364-369
AddDefaults(store, files, now) ==
    IF files = <<>> THEN store
    ELSE LET f == Head(files)
         IN  AddDefaults(IF HasRecord(store, f) THEN store
                         ELSE PutRecord(store, f, createDefaultMetadata(f, now)),
                         Tail(files), now)

\* A filter that keeps the .html files only.
HtmlFilesOf(d) == SelectSeq(ReadDir(d), LAMBDA f : EndsWith(f, HtmlExt))

\* syncWithFileSystem lines 354-359: the .html and .svg files of the listing.
DesignFilesOf(d) ==
    SelectSeq(ReadDir(d), LAMBDA f : EndsWith(f, HtmlExt) \/ EndsWith(f, SvgExt))

\* syncWithFileSystem lines 362-374, with the store loaded: the store is
\* saved when a record was added.
SyncLoaded(st) ==
    LET store == st.heap[st.p.store]
        added == SelectSeq(st.p.rest, LAMBDA f : ~HasRecord(store, f))
    IN  IF added # <<>>
        THEN SaveMetadata(
                [st EXCEPT !.heap[st.p.store] = AddDefaults(store, st.p.rest, st.now)],
                "done")
        ELSE Goto(st, "done")

\* An archiveOldDesigns that looks at the age only.
IsOldAnyStatus(rec, cutoff) == rec.createdAt < cutoff

\* archiveOldDesigns lines 300-305: whether the record is to be archived.
IsOld(rec, cutoff) ==
    /\ rec.status # "approved"
    /\ rec.status # "archived"
    /\ rec.createdAt < cutoff

\* archiveOldDesigns lines 297-301, with the store loaded: the cutoff date is
\* daysOld before now, and the loop runs over the entries the table has at
\* this moment.
ArchiveOldLoaded(st) ==
    LET store == st.heap[st.p.store]
    IN  [st EXCEPT !.p.cutoff = st.now - st.p.value,
                   !.p.rest = SelectSeq(FileOrder, LAMBDA f : HasRecord(store, f)),
                   !.p.prior = store.designs,
                   !.p.pc = "ao_next"]

\* archiveOldDesigns lines 303-310: the next entry; archiveDesign is called
\* for a record that is old, and the function returns after the last entry.
ArchiveOldNext(st) ==
    IF st.p.rest = <<>> THEN Goto(st, "done")
    ELSE LET f == Head(st.p.rest)
             store == st.heap[st.p.store]
         IN  IF HasRecord(store, f) /\ IsOld(store.designs[f], st.p.cutoff)
             THEN [st EXCEPT !.p.file = f, !.p.tried = Append(@, f),
                             !.p.pc = "w_mkdir"]
             ELSE [st EXCEPT !.p.rest = Tail(@)]

\* archiveOldDesigns line 310: archiveDesign has returned, archived++.
ArchiveOldCounted(st) ==
    [st EXCEPT !.p.acc = Append(@, st.p.file), !.p.rest = Tail(@),
               !.p.file = NoId, !.p.pc = "ao_next"]

\* Where archiveDesign returns to: handleDesignAction line 566, or the loop
\* of archiveOldDesigns.
ArchivedNext(st) == IF st.p.kind = "archiveOld" THEN "ao_ok" ELSE "list"

\* handleDesignAction lines 541-576: the first step of each action.
ActionStart(st) ==
    CASE st.p.action = "setStatus" -> LoadMetadata(st, "ss_got")
      [] st.p.action = "copyPrompt" -> LoadMetadata(st, "done")
      [] st.p.action = "archive" -> Goto(st, "w_mkdir")
      [] st.p.action = "delete" -> Goto(st, "w_dialog")
      [] OTHER -> Goto(st, "done")

\* clearCache()
ClearCache(st) == [st EXCEPT !.cache = 0]

\* Where a handler reads store.designs[fileName] of the store it has loaded.
DerefPcs ==
    {"list_read", "ss_got", "dl_drop", "ar_loaded", "us_loaded", "gm_loaded",
     "at_loaded", "rt_loaded", "un_loaded", "rs_loaded", "sy_loaded", "ao_loaded"}

\* Reading a member of designs raises a TypeError when designs is null.
NullDeref(st) ==
    /\ st.p.pc \in DerefPcs
    /\ st.p.store # 0
    /\ DesignsIsNull(st.heap[st.p.store])

\* A sendDesignsList that lets the exception leave the handler.
RaiseUncaught(st) == [st EXCEPT !.p.pc = "done", !.p.raised = TRUE]

\* sendDesignsList lines 353-358 catches what getDesignFiles raises and
\* sends the error message; elsewhere the exception leaves the handler.
RaiseTypeError(st) ==
    IF st.p.pc = "list_read" THEN Goto(Post(st, ErrorMsg), "done") ELSE Throw(st)

RECURSIVE Run(_)
\* A handler runs until it awaits real I/O or ends.
Run(st) ==
    CASE NullDeref(st) -> Run(RaiseTypeError(st))
      [] ~NullDeref(st) /\ st.p.pc = "list_read" -> Run(ListRead(st))
      [] ~NullDeref(st) /\ st.p.pc = "ss_got" -> Run(SetStatusGot(st))
      [] ~NullDeref(st) /\ st.p.pc = "dl_drop" -> Run(DeleteDrop(st))
      [] ~NullDeref(st) /\ st.p.pc = "ar_loaded" ->
            Run(UpdateStatusLoaded(st, "archived", ArchivedNext(st)))
      [] ~NullDeref(st) /\ st.p.pc = "us_loaded" ->
            Run(UpdateStatusLoaded(st, st.p.value, "done"))
      [] ~NullDeref(st) /\ st.p.pc = "rs_loaded" ->
            Run(UpdateStatusLoaded(st, "draft", "done"))
      [] ~NullDeref(st) /\ st.p.pc = "gm_loaded" -> Run(GetLoaded(st))
      [] ~NullDeref(st) /\ st.p.pc = "at_loaded" -> Run(AddTagLoaded(st))
      [] ~NullDeref(st) /\ st.p.pc = "rt_loaded" -> Run(RemoveTagLoaded(st))
      [] ~NullDeref(st) /\ st.p.pc = "un_loaded" -> Run(UpdateNotesLoaded(st))
      [] ~NullDeref(st) /\ st.p.pc = "sy_loaded" -> Run(SyncLoaded(st))
      [] ~NullDeref(st) /\ st.p.pc = "ao_loaded" -> Run(ArchiveOldLoaded(st))
      [] st.p.pc = "ao" -> Run(LoadMetadata(st, "ao_loaded"))
      [] st.p.pc = "ao_next" -> Run(ArchiveOldNext(st))
      [] st.p.pc = "ao_ok" -> Run(ArchiveOldCounted(st))
      [] st.p.pc = "gm" -> Run(LoadMetadata(st, "gm_loaded"))
      [] st.p.pc = "at" -> Run(LoadMetadata(st, "at_loaded"))
      [] st.p.pc = "rt" -> Run(LoadMetadata(st, "rt_loaded"))
      [] st.p.pc = "un" -> Run(LoadMetadata(st, "un_loaded"))
      [] st.p.pc = "list" -> Run(ListStart(st))
      [] st.p.pc = "list_next" -> Run(ListNext(st))
      [] st.p.pc = "sp" -> Run(SetPrimaryStart(st))
      [] st.p.pc = "sp_saved" -> Run(SetPrimarySaved(st))
      [] st.p.pc = "act" -> Run(ActionStart(st))
      [] st.p.pc = "ss_set" -> Run(SetStatusSet(st))
      [] st.p.pc = "dl_confirmed" -> Run(DeleteConfirmed(st))
      [] st.p.pc = "us" -> Run(LoadMetadata(st, "us_loaded"))
      [] st.p.pc = "rl" -> Run(LoadMetadata(ClearCache(st), "done"))
      [] OTHER -> st

\* handleMessage lines 317-336: the handler a message starts.
HandlerFor(message) ==
    CASE message.command = "canvas:ready" ->
            [IdleProc EXCEPT !.kind = "ready", !.pc = "list"]
      [] message.command = "design:setPrimary" ->
            [IdleProc EXCEPT !.kind = "setPrimary", !.pc = "sp",
                             !.id = message.designId]
      [] message.command = "design:action" ->
            [IdleProc EXCEPT !.kind = "action", !.pc = "act",
                             !.id = message.designId,
                             !.file = FileNameOf(message.designId),
                             !.action = message.action,
                             !.value = message.value]
      [] OTHER -> [IdleProc EXCEPT !.kind = "other", !.pc = "done"]

\* setupFileWatcher lines 295-308: each event calls sendDesignsList.
WatcherHandler == [IdleProc EXCEPT !.kind = "watch", !.pc = "list"]

\* The status of every record of a store.
StatusTable(store) == [f \in DOMAIN store.designs |-> store.designs[f].status]

\* What is kept of a handler that ended, with the table it held and whether
\* its file is in the directory.
Summary(p, h, d) ==
    [kind |-> p.kind, action |-> p.action, file |-> p.file, value |-> p.value,
     confirm |-> p.confirm, posted |-> p.posted, pushed |-> p.pushed,
     raised |-> p.raised, caught |-> p.caught, removed |-> p.removed,
     had |-> p.had, before |-> p.before,
     prior |-> p.prior, tried |-> p.tried, counted |-> p.acc, cutoff |-> p.cutoff,
     after |-> IF p.store # 0 /\ HasRecord(h[p.store], p.file)
               THEN h[p.store].designs[p.file].updatedAt ELSE 0,
     onDisk |-> p.file # NoId /\ d[p.file] > 0,
     loaded |-> IF p.store # 0 THEN StatusTable(h[p.store]) ELSE <<>>]

\* The host state a segment leaves.  Store objects nothing refers to any more
\* are collected.
Commit(st) ==
    LET ps == [procs EXCEPT ![st.self] = IF st.p.pc = "done" THEN IdleProc ELSE st.p]
        live == LiveIds(ps, st.cache)
    IN  /\ Len(toView) + Len(st.out) <= MaxQueue
        /\ procs' = ps
        /\ heap' = [i \in StoreIds |-> IF i \in live THEN st.heap[i] ELSE FreeCell]
        /\ cache' = st.cache
        /\ disk' = st.disk
        /\ hostPrimary' = st.hostPrimary
        /\ toView' = toView \o st.out
        /\ ended' = IF st.p.pc = "done" /\ scope.history
                    THEN Summary(st.p, st.heap, st.disk) ELSE ended

\* The host runs one handler at a time to its end when the scope is
\* sequential, and otherwise starts a handler while others are suspended.
Idle(q) == procs[q].kind = "idle"
CanStart(self) ==
    /\ Idle(self)
    /\ \A q \in ProcIds : q < self => ~Idle(q)
    /\ Cardinality({q \in ProcIds : ~Idle(q)}) < scope.maxProcs
Quiet == \A q \in ProcIds : Idle(q)

\* webview.onDidReceiveMessage -> handleMessage(message)
HostOnMessage(self) ==
    /\ toHost # <<>>
    /\ CanStart(self)
    /\ toHost' = Tail(toHost)
    /\ LET st == Run([Segment(self) EXCEPT !.p = HandlerFor(Head(toHost))])
       IN  /\ Commit(st)
           /\ watcherQ' = watcherQ + st.events
    /\ UNCHANGED <<viewVars, archive, metaFile, config, clock, scope, dev, lastSet>>

\* The file watcher's callback.
HostOnWatcher(self) ==
    /\ watcherQ > 0
    /\ CanStart(self)
    /\ LET st == Run([Segment(self) EXCEPT !.p = WatcherHandler])
       IN  /\ Commit(st)
           /\ watcherQ' = watcherQ - 1 + st.events
    /\ UNCHANGED <<viewVars, toHost, archive, metaFile, config, clock, scope, dev, lastSet>>

Waiting(self, pc) == procs[self].pc = pc

\* vscode.workspace.fs.readFile ends: with the file's content, or by an error
\* (which loadMetadata takes for an absent file).
ReadDone(self, ok) ==
    /\ Waiting(self, "w_read")
    /\ ok \/ scope.ioFail
    /\ LET st == Run(LoadMetadataRead(Segment(self), IF ok THEN metaFile ELSE Absent))
       IN  /\ Commit(st)
           /\ watcherQ' = watcherQ + st.events
    /\ UNCHANGED <<viewVars, toHost, archive, metaFile, config, clock, scope, dev, lastSet>>

\* The status the table holds for each file after a handler's write succeeded.
LastSetAfter(p) ==
    LET made == IF p.kind = "sync" THEN Range(p.rest) ELSE {p.file}
        keys == IF p.action = "delete" THEN (DOMAIN lastSet) \ {p.file}
                ELSE (DOMAIN lastSet) \cup made
        kept(f) == IF f \in DOMAIN lastSet THEN lastSet[f] ELSE "draft"
    IN  [f \in keys |->
            IF f \notin made THEN lastSet[f]
            ELSE IF p.action = "archive" THEN "archived"
            ELSE IF p.kind = "restore" THEN "draft"
            ELSE IF p.kind = "updateStatus" \/ p.action = "setStatus" THEN p.value
            ELSE kept(f)]

\* vscode.workspace.fs.writeFile ends: the file holds the content, or the
\* write failed and saveMetadata rethrows.
WriteDone(self, ok) ==
    /\ Waiting(self, "w_write")
    /\ ok \/ scope.ioFail
    /\ LET st == Run(IF ok THEN SaveMetadataWritten(Segment(self))
                     ELSE Throw(Segment(self)))
       IN  /\ Commit(st)
           /\ watcherQ' = watcherQ + st.events
    /\ metaFile' = IF ok THEN procs[self].content ELSE metaFile
    /\ lastSet' = IF ok /\ scope.history THEN LastSetAfter(procs[self]) ELSE lastSet
    /\ UNCHANGED <<viewVars, toHost, archive, config, clock, scope, dev>>

\* savePrimaryDesign: config.update ends.
ConfigDone(self, ok) ==
    /\ Waiting(self, "w_cfg")
    /\ ok \/ scope.ioFail
    /\ LET st == Run(IF ok THEN Goto(Segment(self), procs[self].k)
                     ELSE Throw(Segment(self)))
       IN  /\ Commit(st)
           /\ watcherQ' = watcherQ + st.events
    /\ config' = IF ok THEN procs[self].id ELSE config
    /\ UNCHANGED <<viewVars, toHost, archive, metaFile, clock, scope, dev, lastSet>>

\* deleteDesign lines 617-621: the modal dialog is answered, by 'Delete' or
\* by dismissing it.
DialogDone(self, answer) ==
    /\ Waiting(self, "w_dialog")
    /\ LET st == Run([Segment(self) EXCEPT !.p.confirm = answer,
                                           !.p.pc = "dl_confirmed"])
       IN  /\ Commit(st)
           /\ watcherQ' = watcherQ + st.events
    /\ UNCHANGED <<viewVars, toHost, archive, metaFile, config, clock, scope, dev, lastSet>>

\* archiveDesign lines 191-196: the archive folder is there or is created.
MkdirDone(self, ok) ==
    /\ Waiting(self, "w_mkdir")
    /\ ok \/ scope.ioFail
    /\ LET st == Run(IF ok THEN Goto(Segment(self), "w_copy")
                     ELSE Throw(Segment(self)))
       IN  /\ Commit(st)
           /\ watcherQ' = watcherQ + st.events
    /\ UNCHANGED <<viewVars, toHost, archive, metaFile, config, clock, scope, dev, lastSet>>

\* An archiveDesign that goes on to delete the source when the copy failed.
CopyDoneAnyway(self, ok) ==
    /\ Waiting(self, "w_copy")
    /\ IF ok THEN disk[procs[self].file] > 0
             ELSE scope.ioFail \/ disk[procs[self].file] = 0
    /\ LET st == Run(Goto(Segment(self), "w_del"))
       IN  /\ Commit(st)
           /\ watcherQ' = watcherQ + st.events
    /\ archive' = IF ok THEN archive \cup {procs[self].file} ELSE archive
    /\ UNCHANGED <<viewVars, toHost, metaFile, config, clock, scope, dev, lastSet>>

\* archiveDesign line 200: the copy ends; it fails when the source is gone.
CopyDone(self, ok) ==
    /\ Waiting(self, "w_copy")
    /\ IF ok THEN disk[procs[self].file] > 0
             ELSE scope.ioFail \/ disk[procs[self].file] = 0
    /\ LET st == Run(IF ok THEN Goto(Segment(self), "w_del")
                     ELSE Throw(Segment(self)))
       IN  /\ Commit(st)
           /\ watcherQ' = watcherQ + st.events
    /\ archive' = IF ok THEN archive \cup {procs[self].file} ELSE archive
    /\ UNCHANGED <<viewVars, toHost, metaFile, config, clock, scope, dev, lastSet>>

\* archiveDesign lines 201-204: the source is deleted, and updateStatus
\* starts; the delete fails when the source is gone.
SourceDeleteDone(self, ok) ==
    /\ Waiting(self, "w_del")
    /\ IF ok THEN disk[procs[self].file] > 0
             ELSE scope.ioFail \/ disk[procs[self].file] = 0
    /\ LET seg == Segment(self)
           st == Run(IF ok
                     THEN LoadMetadata([seg EXCEPT !.disk[seg.p.file] = 0,
                                                   !.events = @ + 1,
                                                   !.p.removed = TRUE], "ar_loaded")
                     ELSE Throw(seg))
       IN  /\ Commit(st)
           /\ watcherQ' = watcherQ + st.events
    /\ UNCHANGED <<viewVars, toHost, archive, metaFile, config, clock, scope, dev, lastSet>>

\* restoreFromArchive line 226: the copy into the design directory ends (the
\* watcher sees the file appear); it fails when the archive has no such file.
RestoreCopyDone(self, ok) ==
    /\ Waiting(self, "w_rcopy")
    /\ IF ok THEN procs[self].file \in archive
             ELSE scope.ioFail \/ procs[self].file \notin archive
    /\ LET seg == Segment(self)
           st == Run(IF ok
                     THEN Goto([seg EXCEPT !.disk[seg.p.file] = seg.now,
                                           !.events = @ + 1], "w_rdel")
                     ELSE Throw(seg))
       IN  /\ Commit(st)
           /\ watcherQ' = watcherQ + st.events
    /\ UNCHANGED <<viewVars, toHost, archive, metaFile, config, clock, scope, dev, lastSet>>

\* A restore that leaves the archived copy where it is.
RestoreDeleteKept(self, ok) ==
    /\ Waiting(self, "w_rdel")
    /\ LET st == Run(LoadMetadata(Segment(self), "rs_loaded"))
       IN  /\ Commit(st)
           /\ watcherQ' = watcherQ + st.events
    /\ UNCHANGED <<viewVars, toHost, archive, metaFile, config, clock, scope, dev, lastSet>>

\* restoreFromArchive lines 227-230: the archived copy is deleted, and
\* updateStatus(fileName, 'draft') starts.
RestoreDeleteDone(self, ok) ==
    /\ Waiting(self, "w_rdel")
    /\ IF ok THEN procs[self].file \in archive
             ELSE scope.ioFail \/ procs[self].file \notin archive
    /\ LET st == Run(IF ok THEN LoadMetadata(Segment(self), "rs_loaded")
                     ELSE Throw(Segment(self)))
       IN  /\ Commit(st)
           /\ watcherQ' = watcherQ + st.events
    /\ archive' = IF ok THEN archive \ {procs[self].file} ELSE archive
    /\ UNCHANGED <<viewVars, toHost, metaFile, config, clock, scope, dev, lastSet>>

\* syncWithFileSystem line 353: readDirectory ends, and loadMetadata starts.
ReadDirDone(self, ok) ==
    /\ Waiting(self, "w_readdir")
    /\ ok \/ scope.ioFail
    /\ LET seg == Segment(self)
           st == Run(IF ok
                     THEN LoadMetadata([seg EXCEPT !.p.rest = DesignFilesOf(seg.disk)],
                                       "sy_loaded")
                     ELSE Throw(seg))
       IN  /\ Commit(st)
           /\ watcherQ' = watcherQ + st.events
    /\ UNCHANGED <<viewVars, toHost, archive, metaFile, config, clock, scope, dev, lastSet>>

-----------------------------------------------------------------------------
(* The environment *)

\* Another process (the AI agent, the user) changes the design directory;
\* the watcher raises an event for it.
FsQuiet == (scope.maxProcs > 1 \/ Quiet) /\ watcherQ < MaxPending

ExternalCreate(f) ==
    /\ f \in scope.files /\ FsQuiet
    /\ disk[f] = 0
    /\ disk' = [disk EXCEPT ![f] = clock]
    /\ watcherQ' = watcherQ + 1
    /\ UNCHANGED <<viewVars, chanVars, archive, metaFile, config, heap, cache,
                   hostPrimary, procs, clock, scope, dev, histVars>>

ExternalDelete(f) ==
    /\ f \in scope.files /\ FsQuiet
    /\ disk[f] > 0
    /\ disk' = [disk EXCEPT ![f] = 0]
    /\ watcherQ' = watcherQ + 1
    /\ UNCHANGED <<viewVars, chanVars, archive, metaFile, config, heap, cache,
                   hostPrimary, procs, clock, scope, dev, histVars>>

ExternalModify(f) ==
    /\ f \in scope.files /\ FsQuiet
    /\ disk[f] > 0
    /\ disk' = [disk EXCEPT ![f] = clock]
    /\ watcherQ' = watcherQ + 1
    /\ UNCHANGED <<viewVars, chanVars, archive, metaFile, config, heap, cache,
                   hostPrimary, procs, clock, scope, dev, histVars>>

\* One save of a design file by an editor or the agent: the file is written
\* in several low-level steps, and the watcher raises a change event for each
\* of them at once.
ExternalSave(f) ==
    /\ f \in scope.files
    /\ scope.maxProcs > 1 \/ Quiet
    /\ watcherQ = 0
    /\ disk[f] > 0
    /\ disk' = [disk EXCEPT ![f] = clock]
    /\ watcherQ' = BurstSize
    /\ UNCHANGED <<viewVars, chanVars, archive, metaFile, config, heap, cache,
                   hostPrimary, procs, clock, scope, dev, histVars>>

\* The watcher has fewer events pending than the model keeps: operations
\* that raise events start only then.
Calm == watcherQ < MaxPending

\* Time passes.
Tick ==
    /\ clock < MaxClock
    /\ clock' = clock + 1
    /\ UNCHANGED <<viewVars, chanVars, diskVars, hostVars, scope, dev, histVars>>

\* A design:action message reaches the host (the channel carries whatever
\* the webview posts).
ChannelAction(id, action, value) ==
    /\ PostToHost(ActionMsg(id, action, value))
    /\ UNCHANGED <<viewVars, toView, diskVars, hostVars, clock, scope, dev, histVars>>

\* Where each operation of the DesignManager starts.
StartPc(kind) ==
    CASE kind = "reload" -> "rl"
      [] kind = "updateStatus" -> "us"
      [] kind = "get" -> "gm"
      [] kind = "addTag" -> "at"
      [] kind = "removeTag" -> "rt"
      [] kind = "updateNotes" -> "un"
      [] kind = "restore" -> "w_rcopy"
      [] kind = "sync" -> "w_readdir"
      [] kind = "archiveOld" -> "ao"

\* Code of the extension calls the DesignManager itself: an operation on a
\* file with its argument (a status, a tag, the notes), or clearCache()
\* followed by loadMetadata().
DesignManagerCall(self, kind, file, status) ==
    /\ scope.api
    /\ CanStart(self)
    /\ LET st == Run([Segment(self) EXCEPT
                        !.p = [IdleProc EXCEPT !.kind = kind,
                                               !.pc = StartPc(kind),
                                               !.file = file, !.value = status,
                                               !.prior = IF cache = 0 THEN <<>>
                                                         ELSE heap[cache].designs]])
       IN  /\ Commit(st)
           /\ watcherQ' = watcherQ + st.events
    /\ UNCHANGED <<viewVars, toHost, archive, metaFile, config, clock, scope, dev, lastSet>>

-----------------------------------------------------------------------------
(* SuperdesignDevServer: services/devServer.ts *)

\* findAvailablePort(3456)
FirstPort == 3456

\* The start() calls that may be under way at once.
StartCalls == {1, 2}

ServerIds == 1..MaxServers

\* A start() call: idle (not called), probing a port inside
\* findAvailablePort, or ended with its promise resolved (with result) or
\* rejected.
IdleCall == [pc |-> "idle", probe |-> 0, result |-> 0]

\* What getDesignUrl did the last time it was called.
NoUrl == [asked |-> FALSE, raised |-> FALSE, port |-> 0, file |-> NoId]

\* The instance after the constructor (lines 14-22): port 0, not running, no
\* server.  servers maps each http server created to its port, open holds
\* those that listen.
NewDevServer ==
    [isRunning |-> FALSE, port |-> 0, server |-> 0,
     servers |-> [i \in ServerIds |-> 0], open |-> {},
     calls |-> [c \in StartCalls |-> IdleCall], url |-> NoUrl]

\* The ports some http server of this process listens on.
PortsInUse == {dev.servers[i] : i \in dev.open}

\* The http servers created so far.
Created == {i \in ServerIds : dev.servers[i] # 0}

\* The rest of the state is left alone by the dev server.
DevOnly ==
    UNCHANGED <<viewVars, chanVars, diskVars, hostVars, clock, scope, histVars>>

\* start() lines 28-51: the port is returned when the server is running;
\* otherwise the express app is made and findAvailablePort awaited.
DevStart(c) ==
    /\ dev.calls[c].pc = "idle"
    /\ dev' = IF dev.isRunning
              THEN [dev EXCEPT !.calls[c] = [pc |-> "resolved", probe |-> 0,
                                             result |-> dev.port]]
              ELSE [dev EXCEPT !.calls[c] = [pc |-> "probing", probe |-> FirstPort,
                                             result |-> 0]]
    /\ DevOnly

\* isPortAvailable has answered for the port probed (lines 70-95).  In use:
\* the next port is probed, or findAvailablePort throws after the last one
\* and start() rejects.  Free: start() goes on (lines 51-58), this.port is
\* the port, app.listen makes the server and binds it, and its callback, run
\* before any other event, sets isRunning and resolves with this.port.
DevProbeDone(c) ==
    LET p == dev.calls[c].probe
        s == CHOOSE i \in ServerIds \ Created : \A j \in ServerIds \ Created : i <= j
    IN  /\ dev.calls[c].pc = "probing"
        /\ IF p \in PortsInUse
           THEN dev' = IF p + 1 < FirstPort + PortRange
                       THEN [dev EXCEPT !.calls[c].probe = p + 1]
                       ELSE [dev EXCEPT !.calls[c].pc = "rejected"]
           ELSE /\ Created # ServerIds
                /\ dev' = [dev EXCEPT !.port = p, !.server = s,
                                      !.servers[s] = p, !.open = @ \cup {s},
                                      !.isRunning = TRUE,
                                      !.calls[c] = [pc |-> "resolved", probe |-> 0,
                                                    result |-> p]]
        /\ DevOnly

\* The caller has taken the outcome of its start().
DevReturn(c) ==
    /\ dev.calls[c].pc \in {"resolved", "rejected"}
    /\ dev' = [dev EXCEPT !.calls[c] = IdleCall]
    /\ DevOnly

\* stop() lines 125-131: this.server is closed when there is one.
DevStop ==
    /\ dev' = IF dev.server # 0
              THEN [dev EXCEPT !.open = @ \ {dev.server}, !.isRunning = FALSE]
              ELSE dev
    /\ DevOnly

\* getDesignUrl(fileName) lines 101-106
DevGetDesignUrl(fileName) ==
    /\ dev' = [dev EXCEPT !.url = [asked |-> TRUE, raised |-> ~dev.isRunning,
                                   port |-> IF dev.isRunning THEN dev.port ELSE 0,
                                   file |-> fileName]]
    /\ DevOnly

-----------------------------------------------------------------------------
(* The store's operations called one by one *)

StoreSetMode(m, id) ==
    /\ setMode(m, id)
    /\ UNCHANGED <<designs, primaryDesignId, compareSet, filters, isLoading, error,
                   selectedIds>>
    /\ UNCHANGED <<chanVars, diskVars, hostVars, clock, scope, dev, histVars>>
    /\ cards' = CardsAfter

\* setDesigns(designs)
StoreSetDesigns(list) ==
    /\ designs' = list
    /\ isLoading' = FALSE
    /\ UNCHANGED <<mode, primaryDesignId, compareSet, studioDesignId, filters, error,
                   selectedIds>>
    /\ UNCHANGED <<chanVars, diskVars, hostVars, clock, scope, dev, histVars>>
    /\ cards' = CardsAfter

StoreAddToCompare(id) ==
    /\ addToCompare(id)
    /\ UNCHANGED <<designs, primaryDesignId, studioDesignId, filters, isLoading, error,
                   selectedIds>>
    /\ UNCHANGED <<chanVars, diskVars, hostVars, clock, scope, dev, histVars>>
    /\ cards' = CardsAfter

StoreRemoveFromCompare(id) ==
    /\ removeFromCompare(id)
    /\ UNCHANGED <<designs, primaryDesignId, studioDesignId, filters, isLoading, error,
                   selectedIds>>
    /\ UNCHANGED <<chanVars, diskVars, hostVars, clock, scope, dev, histVars>>
    /\ cards' = CardsAfter

StoreClearCompare ==
    /\ clearCompare
    /\ UNCHANGED <<designs, primaryDesignId, studioDesignId, filters, isLoading, error,
                   selectedIds>>
    /\ UNCHANGED <<chanVars, diskVars, hostVars, clock, scope, dev, histVars>>
    /\ cards' = CardsAfter

\* setStudioDesignId(id)
StoreSetStudioDesignId(id) ==
    /\ studioDesignId' = id
    /\ UNCHANGED <<mode, designs, primaryDesignId, compareSet, filters, isLoading,
                   error, selectedIds>>
    /\ UNCHANGED <<chanVars, diskVars, hostVars, clock, scope, dev, histVars>>
    /\ cards' = CardsAfter

\* A setFilters that also tells the host of the filters.
StoreSetFiltersShared(partial) ==
    /\ filters' = MergeFilters(filters, partial)
    /\ PostToHost(ActionMsg(NoId, "setFilters", Undefined))
    /\ UNCHANGED <<mode, designs, primaryDesignId, compareSet, studioDesignId,
                   isLoading, error, selectedIds>>
    /\ UNCHANGED <<toView, diskVars, hostVars, clock, scope, dev, histVars>>
    /\ cards' = CardsAfter

\* setFilters(partial)
StoreSetFilters(partial) ==
    /\ filters' = MergeFilters(filters, partial)
    /\ UNCHANGED <<mode, designs, primaryDesignId, compareSet, studioDesignId,
                   isLoading, error, selectedIds>>
    /\ UNCHANGED <<chanVars, diskVars, hostVars, clock, scope, dev, histVars>>
    /\ cards' = CardsAfter

-----------------------------------------------------------------------------
(* Initial states *)

\* The metadata file holding a record for each of the files, with this status.
SeedStore(files, status) ==
    [createEmptyStore(0) EXCEPT !.designs =
        [f \in files |-> [createDefaultMetadata(f, 1) EXCEPT !.status = status]]]

\* The extension host and the webview right after the panel was created: the
\* store is in its initial state (canvasStore.ts lines 59-72), App has posted
\* canvas:ready, the handler has read the primary pointer from the settings.
InitWith(sc, files0, meta0, config0, toHost0) ==
    /\ mode = "gallery" /\ designs = <<>> /\ primaryDesignId = NoId
    /\ compareSet = <<>> /\ studioDesignId = NoId
    /\ filters = DefaultFilters /\ isLoading = TRUE /\ error = NoError
    /\ selectedIds = <<>>
    /\ cards = [id \in AllIds |-> NewCard]
    /\ toHost = toHost0 /\ toView = <<>>
    /\ disk = [f \in AllFiles |-> IF f \in files0 THEN 1 ELSE 0]
    /\ archive = {}
    /\ metaFile = meta0
    /\ config = config0
    /\ heap = [i \in StoreIds |-> FreeCell]
    /\ cache = 0
    /\ hostPrimary = config0
    /\ procs = [q \in ProcIds |-> IdleProc]
    /\ watcherQ = 0
    /\ clock = 1
    /\ scope = sc
    /\ dev = NewDevServer
    /\ ended = Summary(IdleProc, heap, disk)
    /\ lastSet = IF LoadsValid(meta0) THEN StatusTable(LoadedStore(meta0, 1)) ELSE <<>>

-----------------------------------------------------------------------------
(* SpecStore: the canvas store alone, its operations called in any order *)

StoreScope ==
    [name |-> "store", files |-> {}, maxProcs |-> 0, ioFail |-> FALSE, api |-> FALSE,
     history |-> FALSE]

\* The catalogs the store is given.
Catalog(files) ==
    getDesignFiles([f \in AllFiles |-> IF f \in files THEN 1 ELSE 0], createEmptyStore(0))
StoreCatalogs == {Catalog({}), Catalog({FileA}), Catalog(AllFiles)}

ViewModes == {"gallery", "compare", "studio"}

InitStore == InitWith(StoreScope, {}, Absent, NoId, <<>>)

NextStore ==
    \/ \E m \in ViewModes, id \in AllIds \cup {NoId} : StoreSetMode(m, id)
    \/ \E list \in StoreCatalogs : StoreSetDesigns(list)
    \/ \E id \in AllIds : StoreAddToCompare(id)
    \/ \E id \in AllIds : StoreRemoveFromCompare(id)
    \/ StoreClearCompare
    \/ \E id \in AllIds \cup {NoId} : StoreSetStudioDesignId(id)

SpecStore == InitStore /\ [][NextStore]_vars

\* C3: after any sequence of addToCompare, removeFromCompare, clearCompare,
\* setMode and catalog updates the compare-set has at most 3 members and no id
\* occurs in it twice.
C3_CompareSetBound ==
    /\ Len(compareSet) <= 3
    /\ \A i, j \in 1..Len(compareSet) : compareSet[i] = compareSet[j] => i = j

\* C3: the compare-set is full, after three additions, and a catalog has been
\* set.
C3_Witness ==
    /\ Len(compareSet) = 3
    /\ mode = "compare"
    /\ designs # <<>>

\* C4: addToCompare(y) on a full compare-set [x1, x2, x3] that does not hold y
\* evicts x1: the set becomes [x2, x3, y].
C4_EvictsOldest ==
    [][\A y \in AllIds :
          (/\ Len(compareSet) = 3
           /\ ~InSeq(compareSet, y)
           /\ StoreAddToCompare(y))
          => compareSet' = Append(Tail(compareSet), y)]_vars

\* C4: what the code does instead: the set keeps [x1, x2, x3], y is dropped
\* and the mode becomes Compare.
C4_DropsNewest ==
    [][\A y \in AllIds :
          (/\ Len(compareSet) = 3
           /\ ~InSeq(compareSet, y)
           /\ StoreAddToCompare(y))
          => (compareSet' = compareSet /\ mode' = "compare")]_vars

\* Where x stands in a sequence without repetitions.
PositionIn(seq, x) == CHOOSE i \in 1..Len(seq) : seq[i] = x

\* C25: removeFromCompare(x) leaves the members other than x, in the order
\* they had; the mode is unchanged when a member is left and Gallery when
\* none is.
C25_RemoveTransition ==
    [][\A x \in AllIds :
          StoreRemoveFromCompare(x)
          => /\ Range(compareSet') = Range(compareSet) \ {x}
             /\ Len(compareSet') = Cardinality(Range(compareSet) \ {x})
             /\ \A i, j \in 1..Len(compareSet') :
                    i < j => PositionIn(compareSet, compareSet'[i])
                             < PositionIn(compareSet, compareSet'[j])
             /\ mode' = IF compareSet' = <<>> THEN "gallery" ELSE mode]_vars

\* C25: the compare-set [a, b] after a was removed: [b], still in Compare.
C25_Witness ==
    /\ compareSet = <<DesignIdOf(FileB)>>
    /\ mode = "compare"

\* C26: addToCompare(x) for a non-member x of a compare-set of fewer than 3
\* appends x and sets the mode to Compare; for a member it changes neither
\* the compare-set nor the mode.
C26_AddTransition ==
    [][\A x \in AllIds :
          StoreAddToCompare(x)
          => /\ (~InSeq(compareSet, x) /\ Len(compareSet) < 3)
                    => (compareSet' = Append(compareSet, x) /\ mode' = "compare")
             /\ InSeq(compareSet, x)
                    => (compareSet' = compareSet /\ mode' = mode)]_vars

\* C26: a was added, then b, and Studio was opened: adding a member again
\* from there leaves [a, b] and Studio.
C26_Witness ==
    /\ compareSet = <<DesignIdOf(FileA), DesignIdOf(FileB)>>
    /\ mode = "studio"

\* C5: in every state mode = Compare implies a non-empty compare-set (so
\* setMode('compare') on an empty compare-set does not enter Compare).
C5_CompareNonEmpty == mode = "compare" => compareSet # <<>>

\* C5: a setMode step asking for Compare on an empty compare-set ends in
\* Gallery.
C5_SetModeFallsBack ==
    [][(/\ compareSet = <<>>
        /\ \E id \in AllIds \cup {NoId} : StoreSetMode("compare", id))
       => mode' = "gallery"]_vars

-----------------------------------------------------------------------------
(* SpecView: the webview driven through its three views, the host answering
   one message at a time, design files created and deleted from outside *)

ViewScope ==
    [name |-> "view", files |-> {FileA, FileB}, maxProcs |-> 1, ioFail |-> FALSE,
     api |-> FALSE, history |-> FALSE]

ViewIds == {DesignIdOf(f) : f \in ViewScope.files}

\* The table the session starts with: a is a draft, b a variation of a.
ViewSeed ==
    [SeedStore({FileA, FileB}, "draft") EXCEPT
        !.designs[FileB].parentDesign = DesignIdOf(FileA)]

InitView ==
    InitWith(ViewScope, {FileA, FileB}, Serialize(ViewSeed), NoId, <<ReadyMsg>>)

NextViewUI ==
    \/ ViewReceive
    \/ \E id \in ViewIds : GalleryToggleSelect(id)
    \/ \E id \in ViewIds : GalleryOpenStudio(id)
    \/ GalleryCompareSelected
    \/ GalleryClearSelection
    \/ \E id \in ViewIds : GallerySetPrimary(id)
    \/ BackToGallery
    \/ \E id \in ViewIds : CompareRemove(id)
    \/ \E id \in ViewIds : CompareOpenInStudio(id)
    \/ \E id \in ViewIds : CompareSetPrimary(id)
    \/ StudioSetPrimary
    \/ \E id \in ViewIds : StudioAddToCompare(id)
    \/ \E id \in ViewIds : StudioSelect(id)

NextViewHost ==
    \/ \E self \in ProcIds : HostOnMessage(self)
    \/ \E self \in ProcIds : HostOnWatcher(self)
    \/ \E self \in ProcIds : ReadDone(self, TRUE)
    \/ \E self \in ProcIds : ConfigDone(self, TRUE)
    \/ \E f \in ViewScope.files : ExternalCreate(f)
    \/ \E f \in ViewScope.files : ExternalDelete(f)

NextView == NextViewUI \/ NextViewHost

SpecView == InitView /\ [][NextView]_vars

\* C1: in no state is the mode Studio with a studio-focus that names no
\* document of the current catalog (a catalog push that removes the focused
\* document puts the mode back to Gallery).
C1_NoDanglingFocus ==
    (mode = "studio" /\ studioDesignId # NoId) => Found(designs, studioDesignId)

\* C1: a designs:list message applied in Studio mode whose catalog does not
\* hold the studio-focus leaves the mode Gallery.
C1_PushFailsOver ==
    [][(/\ ViewReceive
        /\ Head(toView).command = "designs:list"
        /\ mode = "studio"
        /\ ~Found(Head(toView).designs, studioDesignId))
       => mode' = "gallery"]_vars

-----------------------------------------------------------------------------
(* SpecSeq: the host handling one request at a time, its I/O succeeding or
   failing, the webview applying what it is sent *)

SeqScope ==
    [name |-> "seq", files |-> {FileA, FileB}, maxProcs |-> 1, ioFail |-> TRUE,
     api |-> FALSE, history |-> TRUE]

\* The document the requests are about.
SeqIds == {DesignIdOf(FileA)}

\* The status values of the setStatus messages sent.
SeqStatuses == {"approved", "exported"}

\* The table the session starts with: a has a record, b has none.
SeqSeed == SeedStore({FileA}, "draft")

InitSeq ==
    \E meta0 \in {Absent, Serialize(SeqSeed)} :
        InitWith(SeqScope, SeqScope.files, meta0, NoId, <<ReadyMsg>>)

Mutating == {"setStatus", "archive", "delete"}

NextSeq ==
    \/ ViewReceive
    \/ \E id \in SeqIds : GallerySetPrimary(id)
    \/ \E id \in SeqIds, status \in SeqStatuses : ChannelAction(id, "setStatus", status)
    \/ \E id \in SeqIds : ChannelAction(id, "archive", Undefined)
    \/ \E id \in SeqIds : ChannelAction(id, "delete", Undefined)
    \/ \E self \in ProcIds : HostOnMessage(self)
    \/ \E self \in ProcIds : HostOnWatcher(self)
    \/ \E self \in ProcIds : ReadDone(self, TRUE)
    \/ \E self \in ProcIds, ok \in BOOLEAN : WriteDone(self, ok)
    \/ \E self \in ProcIds : ConfigDone(self, TRUE)
    \/ \E self \in ProcIds, answer \in {"Delete", Undefined} : DialogDone(self, answer)
    \/ \E self \in ProcIds : MkdirDone(self, TRUE)
    \/ \E self \in ProcIds, ok \in BOOLEAN : CopyDone(self, ok)
    \/ \E self \in ProcIds : SourceDeleteDone(self, TRUE)
    \/ Tick

SpecSeq == InitSeq /\ [][NextSeq]_vars

\* The host has nothing left to do and the webview has applied what it was sent.
Settled == Quiet /\ watcherQ = 0 /\ toHost = <<>> /\ toView = <<>>

\* The last handler that ended was this design:action, and it sent a catalog.
EndedAction(action) == ended.kind = "action" /\ ended.action = action
EndedWithPush == InSeq(ended.posted, "designs:list")

\* C2: once a catalog rebuild has been delivered and nothing is pending, the
\* primary pointer of the host and that of the webview are null or name a
\* document of the catalog (so a confirmed delete of the primary has cleared
\* them).
C2_PrimaryCleared ==
    (Settled /\ ~isLoading)
    => /\ (hostPrimary = NoId \/ disk[FileNameOf(hostPrimary)] > 0)
       /\ (primaryDesignId = NoId \/ Found(designs, primaryDesignId))

\* C7: a setStatus, archive or delete request the host has handled to its end
\* sent a designs:list message while it was handled, and no message of
\* another kind in its place.
C7_PushAfterMutation ==
    (ended.kind = "action" /\ ended.action \in Mutating)
    => (EndedWithPush /\ Range(ended.posted) \subseteq {"designs:list"})

\* The entry of the file's document in a pushed catalog.
Listed(list, file, status) ==
    \E i \in 1..Len(list) :
        list[i].name = DesignIdOf(file) /\ list[i].status = status

\* A setStatus for a document on disk that has a record ended with its push.
SetStatusPushed ==
    EndedAction("setStatus") /\ ended.had /\ ended.onDisk /\ EndedWithPush

TableKept ==
    cache # 0 => (cache' # 0 /\ heap'[cache'].designs = heap[cache].designs)

\* C10: while a delete request has not been answered 'Delete' (the dialog is
\* open, or was declined or dismissed), no step removes the document's file
\* or changes the metadata table, in memory or on disk, and the handler
\* raises no error.
C10_NothingBeforeConfirm ==
    [][\A self \in ProcIds :
          (/\ procs[self].action = "delete"
           /\ procs[self].confirm # "Delete"
           /\ ~DialogDone(self, "Delete"))
          => /\ disk' = disk /\ archive' = archive /\ metaFile' = metaFile
             /\ TableKept
             /\ ~procs'[self].raised
             /\ (procs'[self].kind = "idle" => ~ended'.raised)]_vars

\* C10: a delete that was dismissed has ended with its catalog push and the
\* file still there.
C10_Witness ==
    /\ EndedAction("delete") /\ ended.confirm = Undefined
    /\ EndedWithPush /\ ended.onDisk /\ ~ended.removed /\ ~ended.raised

-----------------------------------------------------------------------------
(* SpecTable: the metadata table written by status-setting operations whose
   I/O succeeds, and reloaded from storage after clearCache() *)

TableScope ==
    [name |-> "table", files |-> {FileA, FileB}, maxProcs |-> 1, ioFail |-> FALSE,
     api |-> TRUE, history |-> TRUE]

\* The document the webview's requests are about.
TableIds == {DesignIdOf(FileA)}
TableStatuses == {"review", "exported"}

InitTable ==
    \E meta0 \in {Garbage, Serialize(SeqSeed)} :
        InitWith(TableScope, TableScope.files, meta0, NoId, <<ReadyMsg>>)

NextTable ==
    \/ ViewReceive
    \/ \E id \in TableIds, status \in TableStatuses :
            ChannelAction(id, "setStatus", status)
    \/ \E self \in ProcIds, file \in TableScope.files, status \in TableStatuses :
            DesignManagerCall(self, "updateStatus", file, status)
    \/ \E self \in ProcIds : DesignManagerCall(self, "reload", NoId, Undefined)
    \/ \E self \in ProcIds : HostOnMessage(self)
    \/ \E self \in ProcIds : ReadDone(self, TRUE)
    \/ \E self \in ProcIds : WriteDone(self, TRUE)
    \/ Tick

SpecTable == InitTable /\ [][NextTable]_vars

\* C9: the table loaded from storage after clearCache() gives every file name
\* the status that was last set for it by the operations before, and has a
\* record for no other file name.
C9_StatusRoundTrip ==
    ended.kind = "reload" => ended.loaded = lastSet

\* C9: a reload has ended after a status was set that the table did not
\* start with.
C9_Witness ==
    /\ ended.kind = "reload"
    /\ \E f \in DOMAIN lastSet : lastSet[f] \in TableStatuses
    /\ \E f \in DOMAIN ended.loaded : ended.loaded[f] \in TableStatuses

-----------------------------------------------------------------------------
(* SpecHost: handlers of the host suspended in an await while another one
   starts, design files created, modified and deleted from outside *)

HostScope ==
    [name |-> "host", files |-> {FileA, FileB}, maxProcs |-> 2, ioFail |-> FALSE,
     api |-> FALSE, history |-> FALSE]

HostIds == {DesignIdOf(FileA)}

InitHost ==
    \E meta0 \in {Absent, Serialize(SeqSeed)} :
        InitWith(HostScope, {FileA}, meta0, NoId, <<ReadyMsg>>)

NextHost ==
    \/ ViewReceive
    \/ \E id \in HostIds : ChannelAction(id, "delete", Undefined)
    \/ \E self \in ProcIds : HostOnMessage(self)
    \/ \E self \in ProcIds : HostOnWatcher(self)
    \/ \E self \in ProcIds : ReadDone(self, TRUE)
    \/ \E self \in ProcIds : WriteDone(self, TRUE)
    \/ \E self \in ProcIds, answer \in {"Delete", Undefined} : DialogDone(self, answer)
    \/ \E f \in HostScope.files : ExternalCreate(f)
    \/ \E f \in HostScope.files : ExternalModify(f)
    \/ \E f \in HostScope.files : ExternalDelete(f)

SpecHost == InitHost /\ [][NextHost]_vars

\* The table the DesignManager answers from.
CurrentTable == IF cache # 0 THEN heap[cache] ELSE LoadedStore(metaFile, clock)

\* C6: once no event and no request is pending and every message has been
\* applied, the catalog the webview holds lists exactly the .html documents
\* of the directory, each with the status of its record, or draft without one.
C6_CatalogConverges ==
    (Settled /\ ~isLoading)
    => /\ Names(designs) = {DesignIdOf(f) : f \in {g \in OnDisk(disk) : EndsWith(g, HtmlExt)}}
       /\ \A i \in 1..Len(designs) :
            LET rec == RecordOf(CurrentTable, FileNameOf(designs[i].name))
            IN  designs[i].status = IF rec = NoRecord THEN "draft" ELSE rec.status

-----------------------------------------------------------------------------
(* SpecArchive: one document archived, restored and given a status, one
   operation at a time, requested by the webview or called directly *)

ArchiveScope ==
    [name |-> "archive", files |-> {FileA}, maxProcs |-> 1, ioFail |-> FALSE,
     api |-> TRUE, history |-> TRUE]

ArchiveIds == {DesignIdOf(FileA)}

\* The value of StudioFrame.handleSetStatus's offer that is sent here.
ArchiveStatuses == {"archived"}

InitArchive ==
    \E meta0 \in {Absent, Serialize(SeqSeed)} :
        InitWith(ArchiveScope, ArchiveScope.files, meta0, NoId, <<ReadyMsg>>)

NextArchive ==
    \/ ViewReceive
    \/ \E id \in ArchiveIds, status \in ArchiveStatuses :
            ChannelAction(id, "setStatus", status)
    \/ \E id \in ArchiveIds : ChannelAction(id, "archive", Undefined)
    \/ \E self \in ProcIds, file \in ArchiveScope.files :
            Calm /\ DesignManagerCall(self, "restore", file, Undefined)
    \/ \E self \in ProcIds : Calm /\ HostOnMessage(self)
    \/ \E self \in ProcIds : HostOnWatcher(self)
    \/ \E self \in ProcIds : ReadDone(self, TRUE)
    \/ \E self \in ProcIds : WriteDone(self, TRUE)
    \/ \E self \in ProcIds : MkdirDone(self, TRUE)
    \/ \E self \in ProcIds, ok \in BOOLEAN : CopyDone(self, ok)
    \/ \E self \in ProcIds : SourceDeleteDone(self, TRUE)
    \/ \E self \in ProcIds, ok \in BOOLEAN : RestoreCopyDone(self, ok)
    \/ \E self \in ProcIds : RestoreDeleteDone(self, TRUE)

SpecArchive == InitArchive /\ [][NextArchive]_vars

\* The handler of slot self ends in this step without an error.
EndsWell(self) ==
    /\ ~Idle(self) /\ procs'[self].kind = "idle"
    /\ ~ended'.raised /\ ~ended'.caught

\* The record of the file in the table the DesignManager holds after the step.
RecordAfter(f) == IF cache' = 0 THEN NoRecord ELSE RecordOf(heap'[cache'], f)

\* C11: when an archive request for a document ends without an error, the
\* document's record has status archived, its file is in the archive
\* directory and not in the design directory, and the catalog pushed, as the
\* Gallery lists it under the default filters, does not contain the document.
C11_ArchiveEffect ==
    [][\A self \in ProcIds :
          (procs[self].action = "archive" /\ EndsWell(self))
          => LET f == procs[self].file
             IN  /\ RecordAfter(f) # NoRecord
                 /\ RecordAfter(f).status = "archived"
                 /\ f \in archive' /\ disk'[f] = 0
                 /\ EndedWithPush'
                 /\ ~Found(FilteredDesigns(ended'.pushed, DefaultFilters),
                           DesignIdOf(f))]_vars

\* C11: an archive request for a document that was on disk has ended with
\* its push.
C11_Witness ==
    /\ EndedAction("archive") /\ ~ended.raised /\ ended.removed
    /\ EndedWithPush
    /\ ended.file \in archive /\ disk[ended.file] = 0

\* C12: whenever no operation is under way, every record of the table with
\* status archived belongs to a file that is in the archive directory and
\* not in the design directory.
C12_ArchivedRelocated ==
    Quiet
    => \A f \in DOMAIN CurrentTable.designs :
          CurrentTable.designs[f].status = "archived"
          => (f \in archive /\ disk[f] = 0)

\* C13: when restoreFromArchive ends without an error, the document's record
\* has status draft, its file is in the design directory and not in the
\* archive directory, and the catalog built from that state, as the Gallery
\* lists it under the default filters, contains the document.
C13_RestoreEffect ==
    [][\A self \in ProcIds :
          (procs[self].kind = "restore" /\ EndsWell(self))
          => LET f == procs[self].file
             IN  /\ RecordAfter(f) # NoRecord
                 /\ RecordAfter(f).status = "draft"
                 /\ disk'[f] > 0 /\ f \notin archive'
                 /\ Found(FilteredDesigns(getDesignFiles(disk', heap'[cache']),
                                          DefaultFilters),
                          DesignIdOf(f))]_vars

\* C13: a restore of a document that had been archived has ended, and the
\* rebuild its file raised has pushed a catalog that lists the document.
C13_Witness ==
    /\ ended.kind = "watch" /\ Quiet
    /\ Found(ended.pushed, DesignIdOf(FileA))
    /\ archive = {} /\ disk[FileA] > 0
    /\ cache # 0 /\ RecordOf(heap[cache], FileA) # NoRecord
    /\ RecordOf(heap[cache], FileA).status = "draft"
    /\ lastSet = (FileA :> "draft")
    /\ metaFile # Serialize(SeqSeed)

-----------------------------------------------------------------------------
(* SpecStamp: the operations that write a record, one at a time, while the
   host clock advances *)

StampScope ==
    [name |-> "stamp", files |-> {FileA}, maxProcs |-> 1, ioFail |-> FALSE,
     api |-> TRUE, history |-> FALSE]

StampIds == {DesignIdOf(FileA)}

InitStamp ==
    \E meta0 \in {Absent, Serialize(SeqSeed)} :
        InitWith(StampScope, StampScope.files, meta0, NoId, <<ReadyMsg>>)

NextStamp ==
    \/ ViewReceive
    \/ \E id \in StampIds : ChannelAction(id, "setStatus", "approved")
    \/ \E id \in StampIds : ChannelAction(id, "archive", Undefined)
    \/ \E self \in ProcIds, file \in StampScope.files :
            Calm /\ DesignManagerCall(self, "restore", file, Undefined)
    \/ \E self \in ProcIds, file \in StampScope.files :
            DesignManagerCall(self, "updateStatus", file, "review")
    \/ \E self \in ProcIds, file \in StampScope.files :
            DesignManagerCall(self, "addTag", file, "t")
    \/ \E self \in ProcIds, file \in StampScope.files :
            DesignManagerCall(self, "removeTag", file, "t")
    \/ \E self \in ProcIds, file \in StampScope.files :
            DesignManagerCall(self, "updateNotes", file, "n")
    \/ \E self \in ProcIds : Calm /\ HostOnMessage(self)
    \/ \E self \in ProcIds : HostOnWatcher(self)
    \/ \E self \in ProcIds : ReadDone(self, TRUE)
    \/ \E self \in ProcIds : WriteDone(self, TRUE)
    \/ \E self \in ProcIds : MkdirDone(self, TRUE)
    \/ \E self \in ProcIds : CopyDone(self, TRUE)
    \/ \E self \in ProcIds : SourceDeleteDone(self, TRUE)
    \/ \E self \in ProcIds : RestoreCopyDone(self, TRUE)
    \/ \E self \in ProcIds : RestoreDeleteDone(self, TRUE)
    \/ Tick

SpecStamp == InitStamp /\ [][NextStamp]_vars

\* The store objects that are in use before and after the step.
StoresKept == LiveIds(procs, cache) \cap LiveIds(procs', cache')

\* C14: no step lowers the updatedAt of a record of the table, and a step
\* in which an operation changes the status, the tags or the notes of a
\* record of the store it works on, or makes the record, leaves the record's
\* updatedAt at the time of the step.
C14_UpdatedAtMonotone ==
    [][/\ \A f \in DOMAIN CurrentTable.designs \cap DOMAIN CurrentTable'.designs :
            CurrentTable'.designs[f].updatedAt >= CurrentTable.designs[f].updatedAt
       /\ \A i \in StoresKept : \A f \in DOMAIN heap'[i].designs :
            LET new == heap'[i].designs[f]
                old == RecordOf(heap[i], f)
            IN  IF old = NoRecord THEN new.updatedAt = clock
                ELSE /\ new.updatedAt >= old.updatedAt
                     /\ (new.status # old.status \/ new.tags # old.tags
                         \/ new.notes # old.notes)
                        => new.updatedAt = clock]_vars

\* C14: a record written before the clock advanced has been given a status,
\* a tag and notes afterwards.
C14_Witness ==
    /\ Quiet /\ cache # 0 /\ clock = MaxClock
    /\ HasRecord(heap[cache], FileA)
    /\ heap[cache].designs[FileA].createdAt < clock
    /\ heap[cache].designs[FileA].updatedAt = clock
    /\ heap[cache].designs[FileA].tags = <<"t">>
    /\ heap[cache].designs[FileA].notes = "n"
    /\ heap[cache].designs[FileA].status \in {"review", "approved"}

-----------------------------------------------------------------------------
(* SpecLoad: the metadata file holds any content when the table is loaded,
   looked up and joined into the catalog *)

LoadScope ==
    [name |-> "load", files |-> {FileA, FileB}, maxProcs |-> 1, ioFail |-> TRUE,
     api |-> TRUE, history |-> TRUE]

\* Contents that are not a table: no file, no JSON, JSON of another shape.
Malformed == {Absent, Garbage, NullDesigns, NoVersion, NullRecord}

InitLoad ==
    \E meta0 \in Malformed \cup {Serialize(SeqSeed)} :
        InitWith(LoadScope, {FileA}, meta0, NoId, <<ReadyMsg>>)

NextLoad ==
    \/ ViewReceive
    \/ \E self \in ProcIds : DesignManagerCall(self, "reload", NoId, Undefined)
    \/ \E self \in ProcIds, file \in LoadScope.files :
            DesignManagerCall(self, "get", file, Undefined)
    \/ \E self \in ProcIds : HostOnMessage(self)
    \/ \E self \in ProcIds : HostOnWatcher(self)
    \/ \E self \in ProcIds, ok \in BOOLEAN : ReadDone(self, ok)
    \/ \E f \in LoadScope.files : ExternalCreate(f)
    \/ \E f \in LoadScope.files : ExternalDelete(f)

SpecLoad == InitLoad /\ [][NextLoad]_vars

\* C15: whatever the metadata file holds, no load, lookup or catalog build
\* ends by an error (raised, or sent to the webview in place of the catalog),
\* and a file that holds no table is loaded as the empty table.
C15_MalformedLoadsEmpty ==
    /\ ended.kind \in {"reload", "get", "ready", "watch"}
       => (~ended.raised /\ ~InSeq(ended.posted, "error"))
    /\ \A i \in LiveIds(procs, cache) :
          /\ ~DesignsIsNull(heap[i])
          /\ metaFile \in Malformed => heap[i].designs = <<>>

-----------------------------------------------------------------------------
(* SpecFail: updateStatus called one at a time while the write of the
   metadata file may fail *)

FailScope ==
    [name |-> "fail", files |-> {FileA, FileB}, maxProcs |-> 1, ioFail |-> TRUE,
     api |-> TRUE, history |-> TRUE]

FailStatuses == {"review", "approved"}

InitFail ==
    \E meta0 \in {Absent, Serialize(SeqSeed)} :
        InitWith(FailScope, FailScope.files, meta0, NoId, <<>>)

NextFail ==
    \/ \E self \in ProcIds, file \in FailScope.files, status \in FailStatuses :
            DesignManagerCall(self, "updateStatus", file, status)
    \/ \E self \in ProcIds, file \in FailScope.files :
            DesignManagerCall(self, "get", file, Undefined)
    \/ \E self \in ProcIds : ReadDone(self, TRUE)
    \/ \E self \in ProcIds, ok \in BOOLEAN : WriteDone(self, ok)
    \/ Tick

SpecFail == InitFail /\ [][NextFail]_vars

\* C16: when the write of an updateStatus fails, the operation ends by
\* raising the error, and the table the DesignManager has cached is the one
\* it had cached when the operation was called.
C16_FailedWriteKeepsCache ==
    [][\A self \in ProcIds :
          (procs[self].kind = "updateStatus" /\ WriteDone(self, FALSE))
          => /\ ended'.raised
             /\ cache' = cache
             /\ cache # 0 => heap'[cache'].designs = procs[self].prior]_vars

-----------------------------------------------------------------------------
(* SpecRace: two operations of the DesignManager under way at once, each
   suspended in its awaits while the other runs *)

RaceScope ==
    [name |-> "race", files |-> {FileA, FileB}, maxProcs |-> 2, ioFail |-> FALSE,
     api |-> TRUE, history |-> TRUE]

\* The status each file name is given.
RaceStatus == (FileA :> "review") @@ (FileB :> "approved")

InitRace ==
    \E meta0 \in {Absent, Serialize(SeqSeed)} :
        InitWith(RaceScope, RaceScope.files, meta0, NoId, <<>>)

NextRace ==
    \/ \E self \in ProcIds, file \in RaceScope.files :
            DesignManagerCall(self, "updateStatus", file, RaceStatus[file])
    \/ \E self \in ProcIds, file \in RaceScope.files :
            DesignManagerCall(self, "get", file, Undefined)
    \/ \E self \in ProcIds : ReadDone(self, TRUE)
    \/ \E self \in ProcIds : WriteDone(self, TRUE)
    \/ Tick

SpecRace == InitRace /\ [][NextRace]_vars

\* C17: once the operations called have all ended, the persisted table and
\* the cached table give every file name the status that was last written
\* for it: no operation's update is lost to another one's.
C17_BothUpdatesKept ==
    Quiet
    => /\ StatusTable(LoadedStore(metaFile, clock)) = lastSet
       /\ cache # 0 => StatusTable(heap[cache]) = lastSet

-----------------------------------------------------------------------------
(* SpecWatch: design files saved from outside, each save raising a burst of
   watcher events, and the rebuilds the watcher's callbacks start *)

WatchScope ==
    [name |-> "watch", files |-> {FileA, FileB}, maxProcs |-> 2, ioFail |-> FALSE,
     api |-> FALSE, history |-> TRUE]

InitWatch ==
    \E meta0 \in {Absent, Serialize(SeqSeed)} :
        InitWith(WatchScope, WatchScope.files, meta0, NoId, <<ReadyMsg>>)

NextWatch ==
    \/ ViewReceive
    \/ \E self \in ProcIds : HostOnMessage(self)
    \/ \E self \in ProcIds : HostOnWatcher(self)
    \/ \E self \in ProcIds : ReadDone(self, TRUE)
    \/ \E f \in WatchScope.files : ExternalSave(f)
    \/ Tick

SpecWatch == InitWatch /\ [][NextWatch]_vars

\* C18: the catalog rebuild that the watcher starts for a burst of events
\* takes the whole burst: no event of it is left to start another rebuild
\* and push.
C18_BurstCoalesced ==
    [][\A self \in ProcIds : HostOnWatcher(self) => watcherQ' = 0]_vars

-----------------------------------------------------------------------------
(* SpecSync: syncWithFileSystem called while design files come and go and
   its I/O succeeds or fails *)

SyncScope ==
    [name |-> "sync", files |-> {FileB}, maxProcs |-> 1, ioFail |-> TRUE,
     api |-> TRUE, history |-> TRUE]

\* The table the session starts with: a record for a, whose file is there,
\* and one for c, whose file is gone; b and s have a file and no record.
SyncSeed ==
    [createEmptyStore(0) EXCEPT !.designs =
        (FileA :> [createDefaultMetadata(FileA, 1) EXCEPT
                        !.status = "review", !.tags = <<"t">>, !.notes = "n"])
        @@ (FileC :> [createDefaultMetadata(FileC, 1) EXCEPT !.status = "approved"])]

InitSync ==
    \E meta0 \in {Garbage, Serialize(SyncSeed)} :
        InitWith(SyncScope, {FileA, FileB, FileS}, meta0, NoId, <<>>)

NextSync ==
    \/ ViewReceive
    \/ \E self \in ProcIds : DesignManagerCall(self, "sync", NoId, Undefined)
    \/ \E self \in ProcIds : HostOnWatcher(self)
    \/ \E self \in ProcIds, ok \in BOOLEAN : ReadDirDone(self, ok)
    \/ \E self \in ProcIds : ReadDone(self, TRUE)
    \/ \E self \in ProcIds, ok \in BOOLEAN : WriteDone(self, ok)
    \/ \E f \in SyncScope.files : ExternalCreate(f)
    \/ \E f \in SyncScope.files : ExternalDelete(f)
    \/ Tick

SpecSync == InitSync /\ [][NextSync]_vars

\* The table before the operation of slot self was called.
TableBefore(self) ==
    IF procs[self].prior # <<>> THEN procs[self].prior
    ELSE LoadedStore(metaFile, clock).designs

\* What C19 asks of the step that ends a syncWithFileSystem: every .html or
\* .svg file of the directory has a record, a draft one when it had none, and
\* every record there was before is there with its status, tags and notes.
SyncEffect(self) ==
    /\ \A f \in {g \in OnDisk(disk') : EndsWith(g, HtmlExt) \/ EndsWith(g, SvgExt)} :
          /\ HasRecord(CurrentTable', f)
          /\ f \notin DOMAIN TableBefore(self) => CurrentTable'.designs[f].status = "draft"
    /\ \A f \in DOMAIN TableBefore(self) :
          /\ HasRecord(CurrentTable', f)
          /\ CurrentTable'.designs[f].status = TableBefore(self)[f].status
          /\ CurrentTable'.designs[f].tags = TableBefore(self)[f].tags
          /\ CurrentTable'.designs[f].notes = TableBefore(self)[f].notes

\* The operation of slot self is a syncWithFileSystem that ends in this step.
SyncEnds(self) == procs[self].kind = "sync" /\ procs'[self].kind = "idle"

NewestFirst(list) ==
    \A i \in 1..(Len(list) - 1) : list[i].timestamp >= list[i + 1].timestamp

\* C20: every catalog getDesignFiles has produced (the one a handler has
\* just pushed, and those on their way to the webview) is ordered
\* newest-first.
C20_CatalogNewestFirst ==
    /\ NewestFirst(ended.pushed)
    /\ \A i \in 1..Len(toView) :
          toView[i].command = "designs:list" => NewestFirst(toView[i].designs)

\* C20: a catalog is on its way that lists b, saved later, before a, which
\* the directory listing gives first.
C20_Witness ==
    \E i \in 1..Len(toView) :
        /\ toView[i].command = "designs:list"
        /\ Len(toView[i].designs) = 2
        /\ toView[i].designs[1].name = DesignIdOf(FileB)
        /\ toView[i].designs[2].name = DesignIdOf(FileA)
        /\ toView[i].designs[1].timestamp > toView[i].designs[2].timestamp

-----------------------------------------------------------------------------
(* SpecBuild: nothing but catalog builds, for canvas:ready and for every
   watcher event, over a directory that changes and a metadata file of any
   content *)

BuildScope ==
    [name |-> "build", files |-> {FileA, FileB}, maxProcs |-> 2, ioFail |-> FALSE,
     api |-> FALSE, history |-> TRUE]

\* The table of the exported document: a is exported, b is in review, c
\* (which has no file) is approved.
BuildSeed ==
    [SeedStore({FileA, FileB, FileC}, "review") EXCEPT
        !.designs[FileA].status = "exported",
        !.designs[FileC].status = "approved"]

InitBuild ==
    \E meta0 \in {Absent, Garbage, Serialize(BuildSeed)},
       files0 \in {{}, {FileA}} :
        InitWith(BuildScope, files0, meta0, NoId, <<ReadyMsg>>)

NextBuild ==
    \/ ViewReceive
    \/ \E self \in ProcIds : HostOnMessage(self)
    \/ \E self \in ProcIds : HostOnWatcher(self)
    \/ \E self \in ProcIds : ReadDone(self, TRUE)
    \/ \E f \in BuildScope.files : ExternalCreate(f)
    \/ \E f \in BuildScope.files : ExternalModify(f)
    \/ \E f \in BuildScope.files : ExternalDelete(f)

SpecBuild == InitBuild /\ [][NextBuild]_vars

\* The catalogs that were pushed: the one the webview holds, those on their
\* way to it, and the one of the handler that ended last.
CatalogsPushed ==
    {designs, ended.pushed}
    \cup {toView[i].designs : i \in {j \in 1..Len(toView) :
                                        toView[j].command = "designs:list"}}

\* The file's record is exported, in the metadata file and in the cache.
HeldExported(f) ==
    /\ LoadsValid(metaFile)
    /\ HasRecord(Parse(metaFile), f)
    /\ Parse(metaFile).designs[f].status = "exported"
    /\ cache # 0 => /\ HasRecord(heap[cache], f)
                    /\ heap[cache].designs[f].status = "exported"

\* C21: when the record of a document is exported, every catalog pushed
\* that lists the document lists it as archived, and the record stays
\* exported in the metadata file and in the cache over every step of the
\* catalog builds.
C21_ExportedShownArchived ==
    /\ HeldExported(FileA) =>
            \A list \in CatalogsPushed : \A i \in 1..Len(list) :
                list[i].name = DesignIdOf(FileA) => list[i].status = "archived"
    /\ metaFile = Serialize(BuildSeed) => HeldExported(FileA)

\* C21: two builds have ended, the webview holds the catalog of the first
\* and it lists the exported document as archived, as that of the second does.
C21_Witness ==
    /\ HeldExported(FileA)
    /\ cache # 0
    /\ Listed(designs, FileA, "archived")
    /\ ended.kind = "watch"
    /\ Listed(ended.pushed, FileA, "archived")

\* C30: no step of a catalog build changes the metadata file, and none
\* changes a record of a table the DesignManager or a handler holds.
C30_BuildKeepsTable ==
    [][/\ metaFile' = metaFile
       /\ \A i \in StoresKept : heap'[i].designs = heap[i].designs
       /\ CurrentTable'.designs = CurrentTable.designs]_vars

\* C30: a build over the table of three records has pushed a catalog and the
\* table is cached as the file holds it.
C30_Witness ==
    /\ ended.kind \in {"ready", "watch"}
    /\ Len(ended.pushed) = 2
    /\ metaFile = Serialize(BuildSeed)
    /\ cache # 0
    /\ heap[cache].designs = Parse(metaFile).designs

-----------------------------------------------------------------------------
(* SpecRender: the webview driven through its three views with the pointer
   moving over the cards, over a catalog of four documents of which one is
   deleted from outside *)

RenderScope ==
    [name |-> "render", files |-> {FileA}, maxProcs |-> 1, ioFail |-> FALSE,
     api |-> FALSE, history |-> FALSE]

\* The cards the pointer is moved over and that are selected with cmd/ctrl.
RenderPointed == {DesignIdOf(FileA), DesignIdOf(FileB)}

\* The cards that are clicked to open their document in Studio.
RenderOpened == {DesignIdOf(FileC), DesignIdOf(FileD)}

InitRender == InitWith(RenderScope, HtmlFiles, Absent, NoId, <<ReadyMsg>>)

NextRender ==
    \/ ViewReceive
    \/ \E id \in RenderPointed : CardMouseEnter(id)
    \/ \E id \in RenderPointed : CardMouseLeave(id)
    \/ \E id \in RenderPointed : CardPreviewLoad(id)
    \/ \E id \in RenderPointed : GalleryToggleSelect(id)
    \/ \E id \in RenderOpened : GalleryOpenStudio(id)
    \/ GalleryCompareSelected
    \/ BackToGallery
    \/ \E id \in AllIds : CompareRemove(id)
    \/ \E id \in RenderOpened : StudioAddToCompare(id)
    \/ \E self \in ProcIds : HostOnMessage(self)
    \/ \E self \in ProcIds : HostOnWatcher(self)
    \/ \E self \in ProcIds : ReadDone(self, TRUE)
    \/ \E f \in RenderScope.files : ExternalDelete(f)

SpecRender == InitRender /\ [][NextRender]_vars

\* The documents with a live rendering (an iframe) in each view.  App renders
\* one view, the one of the mode (part_004 renderView, lines 167-176).
GalleryPreviews == {id \in Names(GalleryCards) : CardPreview(cards[id])}
\* CompareFrame mounts an iframe for its design (StudioFrame.tsx 496-510).
CompareFrames == Names(CompareDesigns)
\* StudioFrame mounts one iframe for the design it is given, when the file has
\* content (StudioFrame.tsx 203-244).
StudioFrames == IF StudioShown THEN {ActiveDesignId} ELSE {}
LiveRenderings ==
    CASE mode = "compare" -> CompareFrames
      [] mode = "studio" -> StudioFrames
      [] OTHER -> GalleryPreviews

\* C22: in every state at most 3 live renderings are mounted: at most one in
\* Gallery, at most as many as the compare-set has members in Compare, at
\* most one in Studio.
C22_RendererBudget ==
    /\ Cardinality(LiveRenderings) <= 3
    /\ mode = "gallery" => Cardinality(LiveRenderings) <= 1
    /\ mode = "compare" => /\ Len(CompareDesigns) <= Len(compareSet)
                           /\ Cardinality(LiveRenderings) = Len(CompareDesigns)
    /\ mode = "studio" => Cardinality(LiveRenderings) <= 1

\* C22: Compare shows three of the four documents of the catalog.
C22_Witness ==
    /\ mode = "compare" /\ Len(designs) = 4
    /\ Cardinality(LiveRenderings) = 3

\* C22: in Gallery a card that is hovered has its preview mounted while
\* another card, whose preview was loaded before, has none.
C22_HoverWitness ==
    /\ mode = "gallery"
    /\ \E id, other \in AllIds :
          /\ LiveRenderings = {id}
          /\ cards[other].previewLoaded
          /\ other # id

\* C23: whenever the mode is Compare, the documents mounted are exactly the
\* members of the compare-set, and they are 2 or 3.
C23_CompareMountsSet ==
    mode = "compare" =>
        /\ LiveRenderings = Range(compareSet)
        /\ Cardinality(LiveRenderings) \in {2, 3}

-----------------------------------------------------------------------------
(* SpecReady: the webview has mounted and posted canvas:ready; the host
   handles one event at a time, its reads succeed or fail, design files are
   created and deleted from outside.  SpecReadyLive adds the scheduling. *)

ReadyScope ==
    [name |-> "ready", files |-> {FileA, FileB}, maxProcs |-> 1, ioFail |-> TRUE,
     api |-> FALSE, history |-> TRUE]

InitReady ==
    \E meta0 \in {Serialize(SeqSeed), NullDesigns}, files0 \in {{}, {FileA}} :
        InitWith(ReadyScope, files0, meta0, NoId, <<ReadyMsg>>)

NextReady ==
    \/ ViewReceive
    \/ \E self \in ProcIds : HostOnMessage(self)
    \/ \E self \in ProcIds : HostOnWatcher(self)
    \/ \E self \in ProcIds, ok \in BOOLEAN : ReadDone(self, ok)
    \/ \E f \in ReadyScope.files : ExternalCreate(f)
    \/ \E f \in ReadyScope.files : ExternalDelete(f)

SpecReady == InitReady /\ [][NextReady]_vars

\* What the schedulers owe, named by its effect: the host's event loop takes
\* the message at the head of its queue (the HostOnMessage steps), and no
\* read stays pending for ever (the ReadDone steps).
MessageTaken ==
    /\ toHost # <<>>
    /\ \E self \in ProcIds : CanStart(self)
    /\ toHost' = Tail(toHost)
ReadPending == \E self \in ProcIds : Waiting(self, "w_read")

\* The extension host's event loop takes every queued message in its turn
\* although watcher events keep arriving, every read ends, and the webview's
\* event loop handles every message posted to it.
SpecReadyLive ==
    /\ SpecReady
    /\ SF_toHost(MessageTaken)
    /\ []<>(~ReadPending)
    /\ WF_vars(ViewReceive)

ReadyInFlight == \E i \in 1..Len(toHost) : toHost[i].command = "canvas:ready"

\* C27: a canvas:ready that was sent is eventually handled, its handler sends
\* one message, a designs:list naming every .html document of the directory
\* or the error message; the webview clears isLoading when it handles either,
\* and eventually isLoading is false.
C27_ReadyAnswered ==
    /\ ReadyInFlight ~> (ended.kind = "ready")
    /\ [](ended.kind = "ready" => ended.posted \in {<<"designs:list">>, <<"error">>})
    /\ [][(ended' # ended /\ ended'.kind = "ready" /\ ended'.posted = <<"designs:list">>)
          => Names(ended'.pushed) =
                {DesignIdOf(f) : f \in {g \in OnDisk(disk') : EndsWith(g, HtmlExt)}}]_vars
    /\ [][(ViewReceive /\ Head(toView).command \in {"designs:list", "error"})
          => ~isLoading']_vars
    /\ ReadyInFlight ~> ~isLoading

\* C27: the ready handler sent the error message and the webview, no longer
\* loading, shows it.
C27_Witness ==
    /\ ended.kind = "ready"
    /\ ended.posted = <<"error">>
    /\ ~isLoading
    /\ error # NoError

-----------------------------------------------------------------------------
(* SpecPrimary: the panel is opened in a workspace whose settings hold a
   primary design or none, and the primary is set from the cards and from
   the studio *)

PrimaryScope ==
    [name |-> "primary", files |-> {FileA, FileB}, maxProcs |-> 1, ioFail |-> TRUE,
     api |-> FALSE, history |-> FALSE]

PrimaryIds == {DesignIdOf(f) : f \in PrimaryScope.files}

\* loadPrimaryDesign (lines 271-275) reads what an earlier session saved.
InitPrimary ==
    \E config0 \in {NoId, DesignIdOf(FileA)} :
        InitWith(PrimaryScope, PrimaryScope.files, Absent, config0, <<ReadyMsg>>)

NextPrimary ==
    \/ ViewReceive
    \/ \E id \in PrimaryIds : GallerySetPrimary(id)
    \/ \E id \in PrimaryIds : GalleryOpenStudio(id)
    \/ StudioSetPrimary
    \/ BackToGallery
    \/ \E self \in ProcIds : HostOnMessage(self)
    \/ \E self \in ProcIds : ReadDone(self, TRUE)
    \/ \E self \in ProcIds, ok \in BOOLEAN : ConfigDone(self, ok)

SpecPrimary == InitPrimary /\ [][NextPrimary]_vars

\* A design:setPrimary message is queued or being handled.
SetPrimaryInFlight ==
    \/ \E i \in 1..Len(toHost) : toHost[i].command = "design:setPrimary"
    \/ \E self \in ProcIds : procs[self].kind = "setPrimary"

\* C28: whenever no design:setPrimary message is in flight, the primary
\* pointer of the webview equals that of the host.
C28_PrimaryAgrees == ~SetPrimaryInFlight => primaryDesignId = hostPrimary

-----------------------------------------------------------------------------
(* SpecMove: one document archived and restored, one operation at a time,
   every step of which succeeds or fails *)

MoveScope ==
    [name |-> "move", files |-> {FileA}, maxProcs |-> 1, ioFail |-> TRUE,
     api |-> TRUE, history |-> TRUE]

InitMove ==
    InitWith(MoveScope, MoveScope.files, Serialize(SeqSeed), NoId, <<ReadyMsg>>)

NextMove ==
    \/ ViewReceive
    \/ ChannelAction(DesignIdOf(FileA), "archive", Undefined)
    \/ \E self \in ProcIds : Calm /\ DesignManagerCall(self, "restore", FileA, Undefined)
    \/ \E self \in ProcIds : Calm /\ HostOnMessage(self)
    \/ \E self \in ProcIds : HostOnWatcher(self)
    \/ \E self \in ProcIds, ok \in BOOLEAN : ReadDone(self, ok)
    \/ \E self \in ProcIds, ok \in BOOLEAN : WriteDone(self, ok)
    \/ \E self \in ProcIds, ok \in BOOLEAN : MkdirDone(self, ok)
    \/ \E self \in ProcIds, ok \in BOOLEAN : CopyDone(self, ok)
    \/ \E self \in ProcIds, ok \in BOOLEAN : SourceDeleteDone(self, ok)
    \/ \E self \in ProcIds, ok \in BOOLEAN : RestoreCopyDone(self, ok)
    \/ \E self \in ProcIds, ok \in BOOLEAN : RestoreDeleteDone(self, ok)

SpecMove == InitMove /\ [][NextMove]_vars

InDesignDir(f) == disk[f] > 0
InArchiveDir(f) == f \in archive

\* C29: in every state of archive and restore, also after a step failed, the
\* document is in the design directory or in the archive directory, and a
\* step that removes it from one of them finds it in the other.
C29_MoveKeepsDocument ==
    /\ [](InDesignDir(FileA) \/ InArchiveDir(FileA))
    /\ [][/\ (InDesignDir(FileA) /\ ~InDesignDir(FileA)') => InArchiveDir(FileA)
          /\ (InArchiveDir(FileA) /\ ~InArchiveDir(FileA)') => InDesignDir(FileA)]_vars

\* C29: a restore has failed after its copy: the document is in both
\* directories.
C29_Witness ==
    /\ ended.kind = "restore" /\ ended.raised
    /\ InDesignDir(FileA) /\ InArchiveDir(FileA)

-----------------------------------------------------------------------------
(* The view-state machine is never stuck (checked under SpecView) *)

\* C31: in every state that is not Gallery the back button is there to be
\* clicked, and the store takes setMode('gallery') in every state; a back
\* step ends in Gallery with the compare-set, the primary pointer and the
\* filters as they were.
C31_BackAvailable ==
    /\ [](mode # "gallery" => ENABLED BackToGallery)
    /\ [](ENABLED StoreSetMode("gallery", NoId))
    /\ [][BackToGallery => /\ mode' = "gallery"
                           /\ compareSet' = compareSet
                           /\ primaryDesignId' = primaryDesignId
                           /\ filters' = filters]_vars

\* C31: Studio shows its placeholder, the focused document being gone from
\* the catalog, while the compare-set and the primary pointer are set: the
\* back button is all StudioView offers.
C31_Witness ==
    /\ mode = "studio" /\ ~StudioShown
    /\ compareSet # <<>>
    /\ primaryDesignId # NoId

-----------------------------------------------------------------------------
(* SpecFrame: the store's view-state operations called in any order while
   setStatus requests travel to the host and are executed there *)

FrameScope ==
    [name |-> "frame", files |-> {FileA}, maxProcs |-> 1, ioFail |-> FALSE,
     api |-> FALSE, history |-> FALSE]

FrameIds == {DesignIdOf(FileA), DesignIdOf(FileB)}
FrameFilters == {[status |-> "approved"], [status |-> "all"]}

InitFrame ==
    InitWith(FrameScope, {FileA, FileB}, Serialize(SeqSeed), NoId, <<ReadyMsg>>)

\* One of the view-state operations of the store is called.
ViewStateOp ==
    \/ \E m \in ViewModes, id \in FrameIds \cup {NoId} : StoreSetMode(m, id)
    \/ \E id \in FrameIds : StoreAddToCompare(id)
    \/ \E id \in FrameIds : StoreRemoveFromCompare(id)
    \/ StoreClearCompare
    \/ \E id \in FrameIds \cup {NoId} : StoreSetStudioDesignId(id)
    \/ \E partial \in FrameFilters : StoreSetFilters(partial)

NextFrame ==
    \/ ViewStateOp
    \/ ViewReceive
    \/ ChannelAction(DesignIdOf(FileA), "setStatus", "approved")
    \/ \E self \in ProcIds : HostOnMessage(self)
    \/ \E self \in ProcIds : HostOnWatcher(self)
    \/ \E self \in ProcIds : ReadDone(self, TRUE)
    \/ \E self \in ProcIds : WriteDone(self, TRUE)
    \/ \E f \in FrameScope.files : ExternalModify(f)

SpecFrame == InitFrame /\ [][NextFrame]_vars

\* The records of the table the DesignManager answers from.
TableRecords == CurrentTable.designs

-----------------------------------------------------------------------------
(* Recovery from a failed catalog build (checked under SpecReady) *)

\* C33: when the webview applies a designs:list message, the error of an
\* earlier failed build is gone: in Gallery the cards of the pushed catalog
\* are shown.
C33_ErrorCleared ==
    [][(ViewReceive /\ Head(toView).command = "designs:list")
       => /\ error' = NoError
          /\ mode' = "gallery" => GalleryCards' = FilteredDesigns(designs', filters')]_vars

-----------------------------------------------------------------------------
(* Comparing a gallery selection (checked under SpecRender) *)

\* C34: after handleCompareSelected on a selection of 2 or 3 documents the
\* mode is Compare and every selected document is a member of the compare-set,
\* whatever the compare-set held before.
C34_SelectionCompared ==
    [][GalleryCompareSelected
       => /\ mode' = "compare"
          /\ Range(selectedIds) \subseteq Range(compareSet')]_vars

-----------------------------------------------------------------------------
(* The status carried by a setStatus action (SpecStatus) *)

StatusScope ==
    [name |-> "status", files |-> {FileA}, maxProcs |-> 1, ioFail |-> TRUE,
     api |-> FALSE, history |-> FALSE]

\* handleDesignAction(designId, action, value?: any): the values the channel
\* delivers, one of the domain and one outside it.
StatusValues == {"review", "shipped"}

InitStatus ==
    InitWith(StatusScope, StatusScope.files, Serialize(SeqSeed), NoId, <<ReadyMsg>>)

NextStatus ==
    \/ ViewReceive
    \/ \E value \in StatusValues : ChannelAction(DesignIdOf(FileA), "setStatus", value)
    \/ \E self \in ProcIds : HostOnMessage(self)
    \/ \E self \in ProcIds : HostOnWatcher(self)
    \/ \E self \in ProcIds : ReadDone(self, TRUE)
    \/ \E self \in ProcIds, ok \in BOOLEAN : WriteDone(self, ok)
    \/ \E f \in StatusScope.files : ExternalModify(f)

SpecStatus == InitStatus /\ [][NextStatus]_vars

\* C35: in every reachable state every record of the metadata table, cached or
\* persisted, has a status of the five-value domain.
C35_StatusDomain ==
    /\ \A f \in DOMAIN TableRecords : TableRecords[f].status \in DesignStatus
    /\ LoadsValid(metaFile)
         => \A f \in DOMAIN Parse(metaFile).designs :
                Parse(metaFile).designs[f].status \in DesignStatus

-----------------------------------------------------------------------------
(* setStatus for a document without a record (checked under SpecSeq) *)

\* C36: after a setStatus action for an on-disk document that had no metadata
\* record, the catalog pushed lists the document with the requested status
\* (as the catalog shows it: exported is listed as archived).
C36_StatusCreated ==
    (EndedAction("setStatus") /\ ~ended.had /\ ended.onDisk /\ EndedWithPush)
    => Listed(ended.pushed, ended.file,
              IF ended.value = "exported" THEN "archived" ELSE ended.value)

-----------------------------------------------------------------------------
(* SpecCache: loads, mutating operations and channel actions one at a time;
   reads and file moves succeed or fail, every save succeeds, and nothing
   but saveMetadata writes the metadata file *)

CacheScope ==
    [name |-> "cache", files |-> {FileA, FileB}, maxProcs |-> 1, ioFail |-> TRUE,
     api |-> TRUE, history |-> FALSE]

CacheIds == {DesignIdOf(FileA)}

InitCache ==
    \E meta0 \in {Absent, Garbage, NullDesigns, Serialize(SeqSeed)} :
        InitWith(CacheScope, CacheScope.files, meta0, NoId, <<ReadyMsg>>)

NextCache ==
    \/ ViewReceive
    \/ \E id \in CacheIds : ChannelAction(id, "setStatus", "approved")
    \/ \E id \in CacheIds : ChannelAction(id, "archive", Undefined)
    \/ \E id \in CacheIds : ChannelAction(id, "delete", Undefined)
    \/ \E self \in ProcIds, file \in CacheScope.files :
            DesignManagerCall(self, "updateStatus", file, "review")
    \/ \E self \in ProcIds : DesignManagerCall(self, "addTag", FileB, "hero")
    \/ \E self \in ProcIds : DesignManagerCall(self, "reload", NoId, Undefined)
    \/ \E self \in ProcIds : Calm /\ HostOnMessage(self)
    \/ \E self \in ProcIds : HostOnWatcher(self)
    \/ \E self \in ProcIds, ok \in BOOLEAN : ReadDone(self, ok)
    \/ \E self \in ProcIds : WriteDone(self, TRUE)
    \/ \E self \in ProcIds, answer \in {"Delete", Undefined} : DialogDone(self, answer)
    \/ \E self \in ProcIds : MkdirDone(self, TRUE)
    \/ \E self \in ProcIds, ok \in BOOLEAN : CopyDone(self, ok)
    \/ \E self \in ProcIds : SourceDeleteDone(self, TRUE)

SpecCache == InitCache /\ [][NextCache]_vars

\* C37: whenever no operation is under way, the cached table, when there is
\* one, is the table loadMetadata would read from the metadata file.
C37_CacheCoherent ==
    (Quiet /\ cache # 0)
    => /\ LoadsValid(metaFile)
       /\ heap[cache] = Parse(metaFile)

\* C37: a record was deleted by a channel delete action and the cached table
\* the save left behind is in place.
C37_Witness ==
    /\ Quiet /\ cache # 0
    /\ metaFile.kind = "json" /\ ~HasRecord(heap[cache], FileA)
    /\ disk[FileA] = 0
    /\ HasRecord(heap[cache], FileB)

-----------------------------------------------------------------------------
(* SpecOld: archiveOldDesigns called again and again on a table of old and
   recent records, every I/O step of which succeeds or fails *)

OldScope ==
    [name |-> "old", files |-> HtmlFiles, maxProcs |-> 1, ioFail |-> TRUE,
     api |-> TRUE, history |-> TRUE]

\* The daysOld the function is called with (one tick of the clock is a day).
OldDays == {0, 1}

\* The table: a and c are old and not approved, b is old and approved, d was
\* created at the time the session starts.
OldSeed ==
    [createEmptyStore(0) EXCEPT !.designs =
        (FileA :> [createDefaultMetadata(FileA, 0) EXCEPT !.status = "draft"])
        @@ (FileB :> [createDefaultMetadata(FileB, 0) EXCEPT !.status = "approved"])
        @@ (FileC :> [createDefaultMetadata(FileC, 0) EXCEPT !.status = "review"])
        @@ (FileD :> [createDefaultMetadata(FileD, 1) EXCEPT !.status = "draft"])]

\* All four files are in the design directory, or a's file is missing.
InitOld ==
    \E files0 \in {HtmlFiles, HtmlFiles \ {FileA}} :
        InitWith(OldScope, files0, Serialize(OldSeed), NoId, <<>>)

NextOld ==
    \/ \E self \in ProcIds, daysOld \in OldDays :
            DesignManagerCall(self, "archiveOld", NoId, daysOld)
    \/ \E self \in ProcIds, ok \in BOOLEAN : ReadDone(self, ok)
    \/ \E self \in ProcIds, ok \in BOOLEAN : MkdirDone(self, ok)
    \/ \E self \in ProcIds, ok \in BOOLEAN : CopyDone(self, ok)
    \/ \E self \in ProcIds, ok \in BOOLEAN : SourceDeleteDone(self, ok)
    \/ \E self \in ProcIds, ok \in BOOLEAN : WriteDone(self, ok)
    \/ Tick

SpecOld == InitOld /\ [][NextOld]_vars

\* The last operation that ended was an archiveOldDesigns that returned.
EndedArchiveOld == ended.kind = "archiveOld" /\ ~ended.raised

\* The records of the table the loop started on that are neither approved nor
\* archived and were created before the cutoff.
OldRecords ==
    {f \in DOMAIN ended.prior :
        /\ ended.prior[f].status \notin {"approved", "archived"}
        /\ ended.prior[f].createdAt < ended.cutoff}

\* The document is in the archive folder and no longer in the design
\* directory, and its record says archived.
Archived(f) ==
    /\ InArchiveDir(f) /\ ~InDesignDir(f)
    /\ HasRecord(CurrentTable, f) /\ CurrentTable.designs[f].status = "archived"

\* C38: archiveOldDesigns(n) calls archiveDesign once for exactly the records
\* that are neither approved nor archived and older than n days, also when
\* some of the calls fail; approved records keep their status and their file
\* stays where it is; every call that returned is counted and has archived
\* its document, and the count falls short of the calls made exactly when a
\* call failed.
C38_ArchiveOld ==
    EndedArchiveOld
    => /\ Range(ended.tried) = OldRecords
       /\ Len(ended.tried) = Cardinality(OldRecords)
       /\ ended.cutoff <= clock - ended.value
       /\ \A f \in DOMAIN ended.prior :
             ended.prior[f].status = "approved"
             => /\ CurrentTable.designs[f].status = "approved"
                /\ InDesignDir(f) /\ ~InArchiveDir(f)
       /\ Range(ended.counted) \subseteq Range(ended.tried)
       /\ Len(ended.counted) = Cardinality(Range(ended.counted))
       /\ \A f \in Range(ended.counted) : Archived(f)
       /\ (Len(ended.counted) < Len(ended.tried)) <=> ended.caught

\* C38: the archive of a failed, that of c after it succeeded and was
\* counted, and the approved b was in the table.
C38_Witness ==
    /\ EndedArchiveOld
    /\ ended.tried = <<FileA, FileC>>
    /\ ended.counted = <<FileC>>
    /\ ended.prior[FileB].status = "approved"

-----------------------------------------------------------------------------
(* SpecDev: start(), stop() and getDesignUrl() of one SuperdesignDevServer
   called in any order, start() also while another start() is awaiting *)

DevScope ==
    [name |-> "dev", files |-> {}, maxProcs |-> 0, ioFail |-> FALSE, api |-> FALSE,
     history |-> FALSE]

InitDev == InitWith(DevScope, {}, Absent, NoId, <<>>)

NextDev ==
    \/ \E c \in StartCalls : DevStart(c)
    \/ \E c \in StartCalls : DevProbeDone(c)
    \/ \E c \in StartCalls : DevReturn(c)
    \/ DevStop
    \/ \E f \in {FileA, FileB} : DevGetDesignUrl(f)

SpecDev == InitDev /\ [][NextDev]_vars

\* C39: at most one http server of the instance listens at any time; a
\* start() that resolves returns the port of the server that listens; and
\* getDesignUrl returns a URL, with that server's port, when a server listens,
\* and raises when none does.
C39_SingleListener ==
    /\ [](Cardinality(dev.open) <= 1)
    /\ [][\A c \in StartCalls :
            (dev.calls[c].pc # "resolved" /\ dev'.calls[c].pc = "resolved")
            => \E i \in dev'.open : /\ dev'.open = {i}
                                    /\ dev'.servers[i] = dev'.calls[c].result]_vars
    /\ [][(\E f \in {FileA, FileB} : DevGetDesignUrl(f))
            => /\ dev'.url.raised <=> dev.open = {}
               /\ ~dev'.url.raised => dev'.url.port \in PortsInUse]_vars

====
